---- MODULE Spec2Model ----
(***************************************************************************)
(* Hybrid invoice field extraction and reconciliation                      *)
(* (Sebascerpo/verify-technical-test).                                     *)
(*                                                                         *)
(* Text is modelled as TLA+ strings, read character by character with      *)
(* Len, SubSeq and \o; regular expressions of the source are written out   *)
(* as scanners over those strings.  Floats are modelled as integers        *)
(* (amounts in cents where the source parses them from text).  None is     *)
(* the tagged value NoneV; a Python str s is Str(s).                       *)
(***************************************************************************)
EXTENDS Integers, Sequences, FiniteSets, TLC

VARIABLES
    pc,            \* position of the operation under study
    invoice_num,   \* candidate handed to OCRExtractor._is_valid_invoice_number
    valid,         \* its verdict ("none" before the call)
    response,      \* the Veryfi API response dictionary (NoResponse when absent)
    line_items,    \* items returned by LineItemExtractor
    improved,      \* result of extract_and_improve_line_items on line_items
    reimproved,    \* result of extract_and_improve_line_items on improved
    ocr_text,      \* the OCR text (NoneV when absent, else Str(text))
    invoice_total, \* result of _get_invoice_total (NoneV, or Num(cents))
    use_structured_data,   \* settings.use_structured_data
    ocr_fields,    \* what OCRExtractor and extract_from_ocr return for the text
    record,        \* result of HybridExtractor.extract_all_fields
    segmenter,     \* the loop of extract_from_ocr: its index i, current_item, line_items
    metrics,       \* the global MetricsCollector
    service_call,  \* the last call of process_invoice: arguments, what was invoked, Result
    invoice_data,  \* the record handed to JSONGenerator.generate_json
    filename,      \* the filename handed to it (NoneV when absent)
    json_data,     \* what generate_json returned (NoneV before the call)
    json_valid,    \* verdict of DataValidator.validate on it ("none" before the call)
    breaker,       \* a CircuitBreaker: its parameters, failure_count, last_failure_time, state
    now,           \* time.time(), in seconds
    breaker_log,   \* the last operation on the breaker and what its caller saw
    retry_run,     \* one call of a function wrapped by retry: the wrapper's locals and a trace
    cache,         \* a SimpleCache: its ttl and its entries
    cache_log,     \* the last operation on the cache and what it returned
    batch,         \* a ProcessingService and its calls of process_all_invoices
    client         \* a VeryfiClient's calls of process_document (its breaker, cache and
                   \* retry loop are breaker, cache and retry_run)

vars ==
    << pc, invoice_num, valid, response, line_items, improved, reimproved,
       ocr_text, invoice_total, use_structured_data, ocr_fields, record,
       segmenter, metrics, service_call, invoice_data, filename, json_data,
       json_valid, breaker, now, breaker_log, retry_run, cache, cache_log, batch,
       client >>

\* the variables of each operation under study
validator_vars == << invoice_num, valid >>
improve_vars == << improved, reimproved >>
total_vars == << invoice_total >>
hybrid_vars == << use_structured_data, ocr_fields, record >>
extractor_vars ==
    << response, ocr_text, line_items, improve_vars, validator_vars, total_vars,
       hybrid_vars >>

service_vars == << metrics, service_call >>
json_vars == << invoice_data, filename, json_data, json_valid >>
breaker_vars == << breaker, now, breaker_log >>
retry_vars == << retry_run >>
cache_vars == << cache, cache_log >>
batch_vars == << batch >>
client_vars == << client >>

\* the variables of the components that the extractor specifications leave idle
component_vars ==
    << segmenter, service_vars, json_vars, breaker_vars, retry_vars, cache_vars,
       batch_vars, client_vars >>

\* the components that the specification of one component leaves idle
idle_in_segment == << service_vars, json_vars, breaker_vars, retry_vars, cache_vars,
     batch_vars, client_vars >>
idle_in_service == << segmenter, json_vars, breaker_vars, retry_vars, cache_vars,
     batch_vars, client_vars >>
idle_in_json == << segmenter, service_vars, breaker_vars, retry_vars, cache_vars,
     batch_vars, client_vars >>
idle_in_breaker == << segmenter, service_vars, json_vars, retry_vars, cache_vars,
     batch_vars, client_vars >>
idle_in_retry == << segmenter, service_vars, json_vars, breaker_vars, cache_vars,
     batch_vars, client_vars >>
idle_in_cache ==
    << segmenter, service_vars, json_vars, breaker, breaker_log, retry_vars,
       batch_vars, client_vars >>
idle_in_batch ==
    << segmenter, service_vars, json_vars, breaker_vars, retry_vars, cache_vars,
       client_vars >>
idle_in_client ==
    << segmenter, service_vars, json_vars, breaker_log, cache_log, batch_vars >>

----------------------------------------------------------------------------
(* Python values.  A value of a JSON dictionary is a tagged record: a key  *)
(* that is absent, None, a str, a number (float modelled as an integer), a *)
(* str that float() parses, or a {"value": x} wrapper around one of them.  *)

Missing    == [t |-> "missing", s |-> "", n |-> 0]
NoneV      == [t |-> "none", s |-> "", n |-> 0]
Str(x)     == [t |-> "str", s |-> x, n |-> 0]
Num(k)     == [t |-> "num", s |-> "", n |-> k]
NumStr(k)  == [t |-> "numstr", s |-> "", n |-> k]
Wrap(v)    == [t |-> "wrap_" \o v.t, s |-> v.s, n |-> v.n]

IsWrap(v)  == v.t \in {"wrap_none", "wrap_str", "wrap_num", "wrap_numstr"}
Unwrap(v)  ==
    [t |-> CASE v.t = "wrap_none" -> "none" [] v.t = "wrap_str" -> "str"
             [] v.t = "wrap_num" -> "num" [] v.t = "wrap_numstr" -> "numstr",
     s |-> v.s, n |-> v.n]

\* bool(v): None, '', 0 and an absent key (dict.get gives None) are falsy; a
\* dict with a key and a non-empty str are truthy
Truthy(v) ==
    CASE v.t \in {"missing", "none"} -> FALSE
      [] v.t = "str" -> v.s # ""
      [] v.t = "num" -> v.n # 0
      [] v.t = "numstr" -> TRUE
      [] IsWrap(v) -> TRUE

\* a or b
Or(a, b) == IF Truthy(a) THEN a ELSE b

\* The response dictionary: kind says whether the argument is None ("none"),
\* an empty dict ("empty") or a dict with keys ("dict"); each field holds the
\* value of one key, Missing when the key is absent.
Dict ==
    [kind |-> "dict",
     line_items |-> [t |-> "missing", items |-> << >>],
     total |-> Missing,
     ocr_text |-> Missing,
     vendor_name |-> Missing,          \* response['vendor']['name']
     vendor_raw_name |-> Missing,      \* response['vendor']['raw_name']
     vendor_address |-> Missing,       \* response['vendor']['address']
     vendor_raw_address |-> Missing,   \* response['vendor']['raw_address']
     bill_to_name |-> Missing,         \* response['bill_to']['name']
     invoice_number |-> Missing,
     date |-> Missing]

NoResponse == [Dict EXCEPT !.kind = "none"]
EmptyResponse == [Dict EXCEPT !.kind = "empty"]

\* bool(response)
TruthyResponse(resp) == resp.kind = "dict"

----------------------------------------------------------------------------
(* Characters and strings (Python str methods used by the source)          *)

Ch(s, i) == SubSeq(s, i, i)

DigitCh == {"0", "1", "2", "3", "4", "5", "6", "7", "8", "9"}
UpperCh == {"A", "B", "C", "D", "E", "F", "G", "H", "I", "J", "K", "L", "M",
            "N", "O", "P", "Q", "R", "S", "T", "U", "V", "W", "X", "Y", "Z"}
LowerCh == {"a", "b", "c", "d", "e", "f", "g", "h", "i", "j", "k", "l", "m",
            "n", "o", "p", "q", "r", "s", "t", "u", "v", "w", "x", "y", "z"}
AlphaCh == UpperCh \cup LowerCh
AlnumCh == AlphaCh \cup DigitCh
WordCh  == AlnumCh \cup {"_"}
SpaceCh == {" ", "\t", "\n", "\r"}

LowerMap ==
    [c \in UpperCh |->
        CASE c = "A" -> "a" [] c = "B" -> "b" [] c = "C" -> "c" [] c = "D" -> "d"
          [] c = "E" -> "e" [] c = "F" -> "f" [] c = "G" -> "g" [] c = "H" -> "h"
          [] c = "I" -> "i" [] c = "J" -> "j" [] c = "K" -> "k" [] c = "L" -> "l"
          [] c = "M" -> "m" [] c = "N" -> "n" [] c = "O" -> "o" [] c = "P" -> "p"
          [] c = "Q" -> "q" [] c = "R" -> "r" [] c = "S" -> "s" [] c = "T" -> "t"
          [] c = "U" -> "u" [] c = "V" -> "v" [] c = "W" -> "w" [] c = "X" -> "x"
          [] c = "Y" -> "y" [] c = "Z" -> "z"]

LowerOfCh(c) == IF c \in UpperCh THEN LowerMap[c] ELSE c

\* the characters i..j of s in lower case, by halves
RECURSIVE LowerFrom(_, _, _)
LowerFrom(s, i, j) ==
    IF i > j THEN ""
    ELSE IF i = j THEN LowerOfCh(Ch(s, i))
    ELSE LowerFrom(s, i, (i + j) \div 2) \o LowerFrom(s, (i + j) \div 2 + 1, j)

\* str.lower()
Lower(s) == LowerFrom(s, 1, Len(s))

AllIn(s, C) == \A i \in 1..Len(s) : Ch(s, i) \in C

\* str.isdigit(), str.isalpha(), str.islower() on ASCII text
IsDigitStr(s) == Len(s) > 0 /\ AllIn(s, DigitCh)
IsAlphaStr(s) == Len(s) > 0 /\ AllIn(s, AlphaCh)
IsLowerStr(s) ==
    /\ \E i \in 1..Len(s) : Ch(s, i) \in LowerCh
    /\ \A i \in 1..Len(s) : Ch(s, i) \notin UpperCh

\* t occurs in s starting at position i
At(s, i, t) == i >= 1 /\ i + Len(t) - 1 <= Len(s) /\ SubSeq(s, i, i + Len(t) - 1) = t

\* `t in s`
Contains(s, t) == \E i \in 1..(Len(s) - Len(t) + 1) : At(s, i, t)

\* the first of two positions that is one (0 stands for none)
FirstPosition(a, b) == IF a # 0 THEN a ELSE b

\* end (exclusive) of the longest run of characters of C starting at i,
\* taking at most n characters
RECURSIVE RunEnd(_, _, _, _)
RunEnd(s, i, C, n) ==
    IF n > 0 /\ i <= Len(s) /\ Ch(s, i) \in C THEN RunEnd(s, i + 1, C, n - 1) ELSE i

RECURSIVE LStripFrom(_, _)
LStripFrom(s, i) ==
    IF i <= Len(s) /\ Ch(s, i) \in SpaceCh THEN LStripFrom(s, i + 1) ELSE i

RECURSIVE RStripTo(_, _)
RStripTo(s, j) ==
    IF j >= 1 /\ Ch(s, j) \in SpaceCh THEN RStripTo(s, j - 1) ELSE j

\* str.strip()
Strip(s) == SubSeq(s, LStripFrom(s, 1), RStripTo(s, Len(s)))

\* int(s) for a digit string
RECURSIVE IntOfTo(_, _)
IntOfTo(s, j) ==
    IF j < 1 THEN 0
    ELSE 10 * IntOfTo(s, j - 1)
         + (CASE Ch(s, j) = "0" -> 0 [] Ch(s, j) = "1" -> 1 [] Ch(s, j) = "2" -> 2
              [] Ch(s, j) = "3" -> 3 [] Ch(s, j) = "4" -> 4 [] Ch(s, j) = "5" -> 5
              [] Ch(s, j) = "6" -> 6 [] Ch(s, j) = "7" -> 7 [] Ch(s, j) = "8" -> 8
              [] Ch(s, j) = "9" -> 9)

IntOf(s) == IntOfTo(s, Len(s))

----------------------------------------------------------------------------
(* PatternConfig (config/patterns.py)                                      *)

invoice_number_exclusions ==
    {"page", "switch", "date", "invoice", "total", "amount", "quantity",
     "description", "sku", "item", "account", "number", "po", "services"}

----------------------------------------------------------------------------
(* OCRExtractor._is_valid_invoice_number                                   *)

\* re.match(r'\d{1,2}[/-]\d{1,2}[/-]\d{2,4}', s): a prefix match
DateShapedPrefix(s) ==
    LET a == RunEnd(s, 1, DigitCh, 2)
        b == RunEnd(s, a + 1, DigitCh, 2)
        c == RunEnd(s, b + 1, DigitCh, 4)
    IN  /\ a > 1
        /\ a <= Len(s) /\ Ch(s, a) \in {"/", "-"}
        /\ b > a + 1
        /\ b <= Len(s) /\ Ch(s, b) \in {"/", "-"}
        /\ c >= b + 3

\* the same match without re.IGNORECASE
AlnumDashMatch_CaseSensitive(s) ==
    LET body == IF Len(s) > 0 /\ Ch(s, Len(s)) = "\n"
                THEN SubSeq(s, 1, Len(s) - 1) ELSE s
    IN  Len(body) > 0 /\ AllIn(body, UpperCh \cup DigitCh \cup {"-"})

\* re.match(r'^[A-Z0-9\-]+$', s, re.IGNORECASE); `$` also matches before a
\* final newline
AlnumDashMatch(s) ==
    LET body == IF Len(s) > 0 /\ Ch(s, Len(s)) = "\n"
                THEN SubSeq(s, 1, Len(s) - 1) ELSE s
    IN  Len(body) > 0 /\ AllIn(body, AlnumCh \cup {"-"})

_is_valid_invoice_number(s, exclusions) ==
    IF s = "" THEN FALSE
    ELSE IF Len(s) < 6 \/ Len(s) > 20 THEN FALSE
    ELSE IF Strip(Lower(s)) \in exclusions THEN FALSE
    ELSE IF IsAlphaStr(s) /\ IsLowerStr(s) THEN FALSE
    ELSE IF DateShapedPrefix(s) THEN FALSE
    ELSE IF IsDigitStr(s) /\ Len(s) = 4 /\ 1900 <= IntOf(s) /\ IntOf(s) <= 2100
         THEN FALSE
    ELSE IF IsDigitStr(s) THEN TRUE
    ELSE AlnumDashMatch(s)

----------------------------------------------------------------------------
(* Regular-expression scanning (re.finditer / re.findall / re.sub)         *)

\* \b at the gap before position i
WordBoundary(s, i) ==
    LET before == i > 1 /\ i - 1 <= Len(s) /\ Ch(s, i - 1) \in WordCh
        after  == i >= 1 /\ i <= Len(s) /\ Ch(s, i) \in WordCh
    IN  before # after

\* literal t at position i, ignoring case
AtCI(s, i, t) ==
    /\ i >= 1 /\ i + Len(t) - 1 <= Len(s)
    /\ (t = "" \/ LowerOfCh(Ch(s, i)) = LowerOfCh(Ch(t, 1)))
    /\ Lower(SubSeq(s, i, i + Len(t) - 1)) = Lower(t)

\* (\d+\s*Gbps\s*Fiber) | (\d+\s*Gbps) | (\d+\s*Mbps), re.IGNORECASE:
\* end (exclusive) of a match starting at i, 0 when there is none
BandwidthMatchEnd(s, i, unit, withFiber) ==
    LET d == RunEnd(s, i, DigitCh, Len(s))
        u == RunEnd(s, d, SpaceCh, Len(s))
        f == RunEnd(s, u + Len(unit), SpaceCh, Len(s))
    IN  IF d = i \/ ~AtCI(s, u, unit) THEN 0
        ELSE IF ~withFiber THEN u + Len(unit)
        ELSE IF AtCI(s, f, "Fiber") THEN f + Len("Fiber")
        ELSE 0

\* end (exclusive) of a match of the named pattern starting at i, 0 when
\* there is none
MatchEnd(kind, s, i) ==
    CASE kind = "paren" ->
            \* \([^)]*\)
            IF Ch(s, i) # "("
            THEN 0
            ELSE LET e == RunEnd(s, i + 1, {Ch(s, k) : k \in 1..Len(s)} \ {")"}, Len(s))
                 IN  IF e <= Len(s) THEN e + 1 ELSE 0
      [] kind = "sku" ->
            \* \((\d{3,12})\)
            IF Ch(s, i) # "("
            THEN 0
            ELSE LET e == RunEnd(s, i + 1, DigitCh, 12)
                 IN  IF e - (i + 1) >= 3 /\ e <= Len(s) /\ Ch(s, e) = ")"
                     THEN e + 1 ELSE 0
      [] kind = "to_code" ->
            \* \bto\s+[A-Za-z0-9]{6,15}\b, re.IGNORECASE
            LET w == RunEnd(s, i + 2, SpaceCh, Len(s))
                e == RunEnd(s, w, AlnumCh, 16)
            IN  IF /\ AtCI(s, i, "to")
                   /\ WordBoundary(s, i)
                   /\ w > i + 2
                   /\ e - w >= 6 /\ e - w <= 15
                   /\ WordBoundary(s, e)
                THEN e ELSE 0
      [] kind = "digit_code" ->
            \* \b\d+[A-Za-z0-9]{5,14}\b
            LET d == RunEnd(s, i, DigitCh, Len(s))
                e == RunEnd(s, i, AlnumCh, Len(s))
            IN  IF /\ d > i
                   /\ WordBoundary(s, i)
                   /\ WordBoundary(s, e)
                   /\ \E k \in 1..(d - i) : (e - i) - k >= 5 /\ (e - i) - k <= 14
                THEN e ELSE 0
      [] kind = "mid_code" ->
            \* \b[A-Za-z]{2,}\d+[A-Za-z]{2,}\b
            LET a == RunEnd(s, i, AlphaCh, Len(s))
                d == RunEnd(s, a, DigitCh, Len(s))
                e == RunEnd(s, d, AlphaCh, Len(s))
            IN  IF /\ WordBoundary(s, i)
                   /\ a - i >= 2 /\ d - a >= 1 /\ e - d >= 2
                   /\ WordBoundary(s, e)
                THEN e ELSE 0
      [] kind = "pipe" ->
            \* \s*\|\s*
            LET w == RunEnd(s, i, SpaceCh, Len(s))
            IN  IF w <= Len(s) /\ Ch(s, w) = "|"
                THEN RunEnd(s, w + 1, SpaceCh, Len(s)) ELSE 0
      [] kind = "double_comma" ->
            \* ,\s*,
            LET w == RunEnd(s, i + 1, SpaceCh, Len(s))
            IN  IF Ch(s, i) = "," /\ w <= Len(s) /\ Ch(s, w) = ","
                THEN w + 1 ELSE 0
      [] kind = "gbps_fiber" -> BandwidthMatchEnd(s, i, "Gbps", TRUE)
      [] kind = "gbps" -> BandwidthMatchEnd(s, i, "Gbps", FALSE)
      [] kind = "mbps" -> BandwidthMatchEnd(s, i, "Mbps", FALSE)

\* where the leftmost match that starts in i..j starts, 0 when there is
\* none, by halves
RECURSIVE MatchStartIn(_, _, _, _)
MatchStartIn(kind, s, i, j) ==
    IF i > j THEN 0
    ELSE IF i = j THEN (IF MatchEnd(kind, s, i) > 0 THEN i ELSE 0)
    ELSE FirstPosition(MatchStartIn(kind, s, i, (i + j) \div 2),
                       MatchStartIn(kind, s, (i + j) \div 2 + 1, j))

\* where the next match at or after i starts, 0 when there is none
NextMatch(kind, s, i) == MatchStartIn(kind, s, i, Len(s))

\* re.finditer: the non-overlapping matches, leftmost first, as <<start, end>>
\* pairs (end exclusive), p the start of the next match
RECURSIVE FindAllFrom(_, _, _)
FindAllFrom(kind, s, p) ==
    IF p = 0 THEN << >>
    ELSE << << p, MatchEnd(kind, s, p) >> >>
         \o FindAllFrom(kind, s, NextMatch(kind, s, MatchEnd(kind, s, p)))

FindAll(kind, s) == FindAllFrom(kind, s, NextMatch(kind, s, 1))

\* re.sub(pattern, rep, s) from position i on, p the start of the next match
RECURSIVE SubFrom(_, _, _, _, _)
SubFrom(kind, rep, s, i, p) ==
    IF p = 0 THEN SubSeq(s, i, Len(s))
    ELSE SubSeq(s, i, p - 1) \o rep
         \o SubFrom(kind, rep, s, MatchEnd(kind, s, p),
                    NextMatch(kind, s, MatchEnd(kind, s, p)))

Sub(kind, rep, s) ==
    IF s = "" THEN "" ELSE SubFrom(kind, rep, s, 1, NextMatch(kind, s, 1))

\* what the character at i gives to ' '.join(s.split()): itself, or one
\* space for the first character of a run of whitespace between two words
JoinSplitAt(s, i) ==
    IF Ch(s, i) \notin SpaceCh THEN Ch(s, i)
    ELSE IF i > 1 /\ Ch(s, i - 1) \notin SpaceCh /\ i < RStripTo(s, Len(s)) THEN " "
    ELSE ""

\* the characters i..j of s, by halves
RECURSIVE JoinSplitFrom(_, _, _)
JoinSplitFrom(s, i, j) ==
    IF i > j THEN ""
    ELSE IF i = j THEN JoinSplitAt(s, i)
    ELSE JoinSplitFrom(s, i, (i + j) \div 2) \o JoinSplitFrom(s, (i + j) \div 2 + 1, j)

\* ' '.join(s.split())
JoinSplit(s) == IF s = "" THEN "" ELSE JoinSplitFrom(s, 1, Len(s))

\* re.sub(r',\s*$', '', s): the leftmost comma followed by nothing but
\* whitespace up to the end of the text
SubTrailingComma(s) ==
    LET hits == {i \in 1..Len(s) :
                    Ch(s, i) = "," /\ AllIn(SubSeq(s, i + 1, Len(s)), SpaceCh)}
    IN  IF hits = {} THEN s
        ELSE SubSeq(s, 1, (CHOOSE h \in hits : \A g \in hits : h <= g) - 1)

\* re.sub(r'^\s*,\s*', '', s)
SubLeadingComma(s) ==
    LET w == RunEnd(s, 1, SpaceCh, Len(s))
    IN  IF w <= Len(s) /\ Ch(s, w) = ","
        THEN SubSeq(s, RunEnd(s, w + 1, SpaceCh, Len(s)), Len(s))
        ELSE s

\* re.search(rf'\b{re.escape(spec)}\b', text, re.IGNORECASE)
SearchWordCI(spec, text) ==
    \E i \in 1..Len(text) :
        AtCI(text, i, spec) /\ WordBoundary(text, i) /\ WordBoundary(text, i + Len(spec))

----------------------------------------------------------------------------
(* ImprovedLineItemExtractor (extractors/improved_line_item_extractor.py)  *)

_is_year_code(code) ==
    IF Len(code) # 4 \/ ~IsDigitStr(code) THEN FALSE
    ELSE 1900 <= IntOf(code) /\ IntOf(code) <= 2100

_is_valid_sku_code(code) ==
    IF Contains(code, "/") \/ Contains(code, "-") THEN FALSE
    ELSE IF Len(code) < 3 THEN FALSE
    ELSE IF _is_year_code(code) THEN FALSE
    ELSE TRUE

\* the first captured code that is a valid SKU code, '' when there is none
RECURSIVE FirstValidSku(_, _, _)
FirstValidSku(description, matches, k) ==
    IF k > Len(matches) THEN ""
    ELSE IF _is_valid_sku_code(SubSeq(description, matches[k][1] + 1, matches[k][2] - 2))
    THEN SubSeq(description, matches[k][1] + 1, matches[k][2] - 2)
    ELSE FirstValidSku(description, matches, k + 1)

extract_sku_from_description(description) ==
    IF description = "" THEN ""
    ELSE FirstValidSku(description, FindAll("sku", description), 1)

tax_keywords == {"tax", "carrier tax", "carrier taxes", "sales tax"}
discount_keywords == {"discount", "credit", "refund", "deduction", "adjustment"}

ContainsAny(s, keywords) == \E kw \in keywords : Contains(s, kw)

_is_tax_line_item(item) == ContainsAny(Lower(item.description), tax_keywords)

_is_discount_line_item(item) ==
    ContainsAny(Lower(item.description), discount_keywords) \/ item.total < 0

InSeq(x, seq) == \E k \in 1..Len(seq) : seq[k] = x

\* the characters i..j of s that are not in C, by halves
RECURSIVE RemoveCharsFrom(_, _, _, _)
RemoveCharsFrom(s, C, i, j) ==
    IF i > j THEN ""
    ELSE IF i = j THEN (IF Ch(s, i) \in C THEN "" ELSE Ch(s, i))
    ELSE RemoveCharsFrom(s, C, i, (i + j) \div 2)
         \o RemoveCharsFrom(s, C, (i + j) \div 2 + 1, j)

\* s without the characters of C
RemoveChars(s, C) == RemoveCharsFrom(s, C, 1, Len(s))

\* bandwidth_specs.append(spec) unless the spec is empty or already there
AddSpec(specs, spec) ==
    IF spec # "" /\ ~InSeq(spec, specs) THEN Append(specs, spec) ELSE specs

\* one `for spec_match in re.finditer(pattern, text)` loop of the first scan
RECURSIVE SpecsFromMatches(_, _, _, _)
SpecsFromMatches(specs, text, matches, k) ==
    IF k > Len(matches) THEN specs
    ELSE SpecsFromMatches(
             AddSpec(specs, Strip(SubSeq(text, matches[k][1], matches[k][2] - 1))),
             text, matches, k + 1)

\* `for pattern in bandwidth_patterns` over one parenthetical
SpecsFromParen(specs, paren_content) ==
    SpecsFromMatches(
        SpecsFromMatches(
            SpecsFromMatches(specs, paren_content, FindAll("gbps_fiber", paren_content), 1),
            paren_content, FindAll("gbps", paren_content), 1),
        paren_content, FindAll("mbps", paren_content), 1)

RECURSIVE SpecsFromParens(_, _, _, _)
SpecsFromParens(specs, description, parens, k) ==
    IF k > Len(parens) THEN specs
    ELSE SpecsFromParens(
             SpecsFromParen(specs, SubSeq(description, parens[k][1], parens[k][2] - 1)),
             description, parens, k + 1)

\* the second scan, over the whole description: a spec is remembered unless
\* it is empty, in the list, or stands as a word in the description without
\* its parentheses characters
AddSpecOutside(specs, spec, description) ==
    IF /\ spec # ""
       /\ ~InSeq(spec, specs)
       /\ ~SearchWordCI(spec, RemoveChars(description, {"(", ")"}))
    THEN Append(specs, spec) ELSE specs

RECURSIVE SpecsOutside(_, _, _, _)
SpecsOutside(specs, description, matches, k) ==
    IF k > Len(matches) THEN specs
    ELSE SpecsOutside(
             AddSpecOutside(
                 specs, Strip(SubSeq(description, matches[k][1], matches[k][2] - 1)),
                 description),
             description, matches, k + 1)

bandwidth_specs(description) ==
    SpecsOutside(
        SpecsOutside(
            SpecsOutside(
                SpecsFromParens(<< >>, description, FindAll("paren", description), 1),
                description, FindAll("gbps_fiber", description), 1),
            description, FindAll("gbps", description), 1),
        description, FindAll("mbps", description), 1)

\* Step 5: append the remembered specs that are not in the cleaned text
RECURSIVE AppendSpecs(_, _, _)
AppendSpecs(clean_desc, specs, k) ==
    IF k > Len(specs) THEN clean_desc
    ELSE AppendSpecs(
             IF SearchWordCI(specs[k], clean_desc) THEN clean_desc
             ELSE IF clean_desc # "" THEN clean_desc \o ", " \o specs[k]
             ELSE specs[k],
             specs, k + 1)

\* Steps 2 and 3: parentheticals and embedded codes are removed
RemoveCodes(description) ==
    Sub("mid_code", "",
        Sub("digit_code", "",
            Sub("to_code", "",
                Sub("paren", "", description))))

\* Step 4: separators and whitespace are normalised, stray commas removed
NormalizeSeparators(clean_desc) ==
    Strip(SubLeadingComma(SubTrailingComma(
        Sub("double_comma", ",",
            Strip(JoinSplit(Sub("pipe", ", ", clean_desc)))))))

\* Step 5 and the final cleanup
WithSpecs(clean_desc, specs) ==
    Sub("double_comma", ",", Strip(JoinSplit(AppendSpecs(clean_desc, specs, 1))))

\* return clean_desc if clean_desc else description
CleanOrOriginal(clean_desc, description) ==
    IF clean_desc = "" THEN description ELSE clean_desc

_clean_line_item_description(description) ==
    IF description = "" THEN description
    ELSE CleanOrOriginal(
             WithSpecs(NormalizeSeparators(RemoveCodes(description)),
                       bandwidth_specs(description)),
             description)

_extract_sku_for_item_IgnoringClass(description, existing_sku, is_tax_or_discount) ==
    IF existing_sku # "" THEN existing_sku
    ELSE extract_sku_from_description(description)

_extract_sku_for_item(description, existing_sku, is_tax_or_discount) ==
    IF is_tax_or_discount THEN ""
    ELSE IF existing_sku # "" THEN existing_sku
    ELSE extract_sku_from_description(description)

_determine_item_tax_rate(is_tax, is_discount, tax_rate) == 0

\* the price comes back as it is
_ensure_price_consistency_Unchanged(price, total) == price

_ensure_price_consistency(price, total) ==
    IF total < 0 /\ price > 0
    THEN -(IF price < 0 THEN -price ELSE price)
    ELSE price

_improve_single_line_item(item, tax_rate) ==
    LET is_tax == _is_tax_line_item(item)
        is_discount == _is_discount_line_item(item)
    IN  [sku |-> _extract_sku_for_item(item.description, item.sku, is_tax \/ is_discount),
         description |-> _clean_line_item_description(item.description),
         quantity |-> item.quantity,
         price |-> _ensure_price_consistency(item.price, item.total),
         tax_rate |-> _determine_item_tax_rate(is_tax, is_discount, tax_rate),
         total |-> item.total]

extract_and_improve_line_items(items) ==
    [k \in 1..Len(items) |-> _improve_single_line_item(items[k], 0)]

----------------------------------------------------------------------------
(* ImprovedLineItemExtractor._get_invoice_total.  Amounts are in cents.    *)

\* float(x) > 0 for the value of response['total']: the amount, 0 when
\* float() raises or the amount is not positive
PositiveFloat(v) ==
    IF v.t \in {"num", "numstr"} /\ v.n > 0 THEN v.n ELSE 0

\* total_raw after the {'value': x} wrapper is taken off
TotalRaw(resp) ==
    IF IsWrap(resp.total) THEN Unwrap(resp.total) ELSE resp.total

_get_invoice_total_from_response(resp) ==
    IF ~TruthyResponse(resp) THEN NoneV
    ELSE IF TotalRaw(resp).t \in {"missing", "none"} THEN NoneV
    ELSE IF PositiveFloat(TotalRaw(resp)) > 0 THEN Num(PositiveFloat(TotalRaw(resp)))
    ELSE NoneV

\* (?:,\d{3})* from position e
RECURSIVE ThousandsEnd(_, _)
ThousandsEnd(s, e) ==
    IF e + 3 <= Len(s) /\ Ch(s, e) = "," /\ AllIn(SubSeq(s, e + 1, e + 3), DigitCh)
    THEN ThousandsEnd(s, e + 4) ELSE e

\* (?:\.\d{2})? from position e
DecimalsEnd(s, e) ==
    IF e + 2 <= Len(s) /\ Ch(s, e) = "." /\ AllIn(SubSeq(s, e + 1, e + 2), DigitCh)
    THEN e + 3 ELSE e

\* \$?\s* from position i: where group 1 starts
AmountGroupStart(s, i) ==
    RunEnd(s, IF Ch(s, i) = "$" THEN i + 1 ELSE i, SpaceCh, Len(s))

\* amount_pattern matched at i with group 1 starting at g: the end
\* (exclusive) of the match, 0 when there is none
AmountEndFrom(s, g) ==
    IF RunEnd(s, g, DigitCh, 3) = g THEN 0
    ELSE DecimalsEnd(s, ThousandsEnd(s, RunEnd(s, g, DigitCh, 3)))

\* re.findall(amount_pattern, line)[-1]: the text of group 1 of the last
\* match at or after i, `last` when there is none
RECURSIVE LastAmountFrom(_, _, _)
LastAmountFrom(line, i, last) ==
    IF i > Len(line) THEN last
    ELSE IF AmountEndFrom(line, AmountGroupStart(line, i)) > 0
    THEN LastAmountFrom(
             line, AmountEndFrom(line, AmountGroupStart(line, i)),
             SubSeq(line, AmountGroupStart(line, i),
                    AmountEndFrom(line, AmountGroupStart(line, i)) - 1))
    ELSE LastAmountFrom(line, i + 1, last)

\* float(text.replace(',', '')) in cents, for digits with an optional
\* two-digit fraction
CentsOf(text) ==
    IF Len(text) >= 3 /\ Ch(text, Len(text) - 2) = "."
    THEN 100 * IntOf(RemoveChars(SubSeq(text, 1, Len(text) - 3), {","}))
         + IntOf(SubSeq(text, Len(text) - 1, Len(text)))
    ELSE 100 * IntOf(RemoveChars(text, {","}))

\* the pieces of two adjacent parts of a text: the last piece of the first
\* part and the first piece of the second are one piece
JoinedPieces(a, b) ==
    SubSeq(a, 1, Len(a) - 1) \o << a[Len(a)] \o b[1] >> \o Tail(b)

\* ocr_text.split('\n') for the characters i..j of s, by halves
RECURSIVE SplitLinesFrom(_, _, _)
SplitLinesFrom(s, i, j) ==
    IF i > j THEN << "" >>
    ELSE IF i = j THEN (IF Ch(s, i) = "\n" THEN << "", "" >> ELSE << Ch(s, i) >>)
    ELSE JoinedPieces(SplitLinesFrom(s, i, (i + j) \div 2),
                      SplitLinesFrom(s, (i + j) \div 2 + 1, j))

SplitLines(s) == SplitLinesFrom(s, 1, Len(s))

total_keywords == {"total", "grand total", "invoice total", "amount due", "balance due"}

\* the amount one line gives, 0 when the loop goes on to the next line
LineTotal(line) ==
    IF Contains(Lower(line), "subtotal") THEN 0
    ELSE IF ~ContainsAny(Lower(line), total_keywords) THEN 0
    ELSE IF LastAmountFrom(line, 1, "") = "" THEN 0
    ELSE CentsOf(LastAmountFrom(line, 1, ""))

\* `for line in lines`: the first line that gives a positive amount
RECURSIVE TotalFromLines(_, _)
TotalFromLines(lines, k) ==
    IF k > Len(lines) THEN NoneV
    ELSE IF LineTotal(lines[k]) > 0 THEN Num(LineTotal(lines[k]))
    ELSE TotalFromLines(lines, k + 1)

_get_invoice_total_from_ocr(text) ==
    IF ~Truthy(text) THEN NoneV
    ELSE TotalFromLines(SplitLines(text.s), 1)

\* sum(item.get('total', 0.0) for item in line_items)
RECURSIVE SumTotals(_, _)
SumTotals(items, k) ==
    IF k > Len(items) THEN 0 ELSE items[k].total + SumTotals(items, k + 1)

Abs(x) == IF x < 0 THEN -x ELSE x

\* a list that is None is handled as the empty list (`if not line_items`)
_calculate_invoice_total_from_line_items(items) ==
    IF Len(items) = 0 THEN NoneV
    ELSE IF Abs(SumTotals(items, 1)) > 0 THEN Num(Abs(SumTotals(items, 1)))
    ELSE NoneV

\* `if total is not None: return total`, else the next source
FirstNotNone(a, b) == IF a.t # "none" THEN a ELSE b

_get_invoice_total(resp, text, items) ==
    FirstNotNone(
        _get_invoice_total_from_response(resp),
        FirstNotNone(
            _get_invoice_total_from_ocr(text),
            _calculate_invoice_total_from_line_items(items)))

----------------------------------------------------------------------------
(* LineItemExtractor.extract_from_structured                               *)

\* float(x) if x else 0.0, with ValueError / TypeError giving 0.0
ToFloat(v) ==
    IF ~Truthy(v) THEN 0
    ELSE IF v.t \in {"num", "numstr"} THEN v.n
    ELSE 0

DigitOf == [d \in 0..9 |->
    CASE d = 0 -> "0" [] d = 1 -> "1" [] d = 2 -> "2" [] d = 3 -> "3" [] d = 4 -> "4"
      [] d = 5 -> "5" [] d = 6 -> "6" [] d = 7 -> "7" [] d = 8 -> "8" [] d = 9 -> "9"]

RECURSIVE StrOfNat(_)
StrOfNat(n) == IF n < 10 THEN DigitOf[n] ELSE StrOfNat(n \div 10) \o DigitOf[n % 10]

\* str(n) for an int
StrOfInt(n) == IF n < 0 THEN "-" \o StrOfNat(-n) ELSE StrOfNat(n)

\* str(x).strip() if x else '', for x a str or an int
ToStrippedStr(v) ==
    IF ~Truthy(v) THEN ""
    ELSE IF v.t = "str" THEN Strip(v.s)
    ELSE StrOfInt(v.n)

\* the body of `for item in veryfi_line_items`, for an item that is a dict:
\* the sequence of items it appends (none or one)
StructuredItem(item) ==
    LET sku == Or(Or(item.sku, item.upc), Str(""))
        description == Or(Or(item.description, item.full_description), Str(""))
    IN  IF Truthy(description) \/ Truthy(sku)
        THEN << [sku |-> ToStrippedStr(sku),
                 description |-> ToStrippedStr(description),
                 quantity |-> ToFloat(item.quantity),
                 price |-> ToFloat(item.price),
                 tax_rate |-> ToFloat(item.tax_rate),
                 total |-> ToFloat(item.total)] >>
        ELSE << >>

RECURSIVE StructuredItemsFrom(_, _)
StructuredItemsFrom(raw, k) ==
    IF k > Len(raw) THEN << >>
    ELSE (IF raw[k].isdict THEN StructuredItem(raw[k]) ELSE << >>)
         \o StructuredItemsFrom(raw, k + 1)

\* resp.line_items is [t |-> "missing" | "list" | "other", items |-> raw items]
extract_from_structured(resp) ==
    IF ~TruthyResponse(resp) \/ resp.line_items.t = "missing" THEN << >>
    ELSE IF resp.line_items.t # "list" THEN << >>
    ELSE StructuredItemsFrom(resp.line_items.items, 1)

----------------------------------------------------------------------------
(* VeryfiClient.safe_get_nested_value / extract_structured_field           *)

\* safe_get_nested_value(response, ..., key) when value_key is FALSE and
\* safe_get_nested_value(response, ..., key, 'value') when it is TRUE, for v
\* the value under key (Missing when a key of the path is absent)
safe_get_nested_value(v, value_key) ==
    IF value_key THEN (IF IsWrap(v) THEN Unwrap(v) ELSE NoneV)
    ELSE IF v.t = "missing" THEN NoneV
    ELSE IF IsWrap(v) THEN Unwrap(v)
    ELSE v

\* the first truthy value along paths[k..], each path a <<key, value_key>>
RECURSIVE FirstTruthyPath(_, _, _)
FirstTruthyPath(resp, paths, k) ==
    IF k > Len(paths) THEN NoneV
    ELSE IF Truthy(safe_get_nested_value(resp[paths[k][1]], paths[k][2]))
    THEN safe_get_nested_value(resp[paths[k][1]], paths[k][2])
    ELSE FirstTruthyPath(resp, paths, k + 1)

extract_structured_field(resp, paths) ==
    IF ~TruthyResponse(resp) THEN NoneV ELSE FirstTruthyPath(resp, paths, 1)

----------------------------------------------------------------------------
(* BaseExtractor._clean_vendor_name, _parse_date                           *)

UpperOfCh(c) == IF c \in LowerCh THEN CHOOSE u \in UpperCh : LowerMap[u] = c ELSE c

\* str.capitalize()
Capitalize(word) ==
    IF word = "" THEN ""
    ELSE UpperOfCh(Ch(word, 1)) \o Lower(SubSeq(word, 2, Len(word)))

\* words[i] for i >= 1: a company suffix is standardised, any other word is
\* capitalized
StandardSuffix(word) ==
    CASE Lower(word) \in {"ltd.", "ltd"} -> "Ltd."
      [] Lower(word) \in {"inc.", "inc"} -> "Inc."
      [] Lower(word) = "llc" -> "LLC"
      [] Lower(word) \in {"corp.", "corp"} -> "Corp."
      [] Lower(word) = "corporation" -> "Corporation"
      [] Lower(word) = "company" -> "Company"
      [] Lower(word) \in {"co.", "co"} -> "Co."
      [] OTHER -> Capitalize(word)

\* end (exclusive) of the word that starts at i
WordEnd(s, i) == RunEnd(s, i, {Ch(s, k) : k \in 1..Len(s)} \ SpaceCh, Len(s))

\* ' '.join(words) after the loop over words, for cleaned a text whose words
\* are separated by single spaces and i the start of a word
RECURSIVE CleanWordsFrom(_, _)
CleanWordsFrom(cleaned, i) ==
    IF i > Len(cleaned) THEN ""
    ELSE (IF i = 1
          THEN Capitalize(SubSeq(cleaned, i, WordEnd(cleaned, i) - 1))
          ELSE " " \o StandardSuffix(SubSeq(cleaned, i, WordEnd(cleaned, i) - 1)))
         \o CleanWordsFrom(cleaned, WordEnd(cleaned, i) + 1)

\* the domain_transformations loop and the words loop, for cleaned the
\* stripped name with its whitespace collapsed
CleanCollapsed(cleaned) ==
    IF Contains(Lower(cleaned), "fb.com") THEN "Facebook, Inc."
    ELSE IF Contains(Lower(cleaned), "facebook.com") THEN "Facebook, Inc."
    ELSE IF Contains(Lower(cleaned), "google.com") THEN "Google LLC"
    ELSE IF Contains(Lower(cleaned), "amazon.com") THEN "Amazon.com, Inc."
    ELSE IF Contains(Lower(cleaned), "apple.com") THEN "Apple Inc."
    ELSE CleanWordsFrom(cleaned, 1)

_clean_vendor_name(vendor_name) ==
    IF vendor_name = "" THEN "" ELSE CleanCollapsed(JoinSplit(vendor_name))

\* a date of the shape MM/DD/YYYY that '%m/%d/%Y', the first format tried,
\* parses whatever the month (day at most 28, four-digit year)
USDate(s) ==
    /\ Len(s) = 10
    /\ IsDigitStr(SubSeq(s, 1, 2)) /\ Ch(s, 3) = "/"
    /\ IsDigitStr(SubSeq(s, 4, 5)) /\ Ch(s, 6) = "/"
    /\ IsDigitStr(SubSeq(s, 7, 10))
    /\ IntOf(SubSeq(s, 1, 2)) \in 1..12
    /\ IntOf(SubSeq(s, 4, 5)) \in 1..28
    /\ IntOf(SubSeq(s, 7, 10)) >= 1000

\* _parse_date on the two kinds of text the responses of SpecHybrid hold: a
\* text without a digit, which no format and no \d{4} matches, and a date
\* that the first format parses and strftime writes back unchanged
_parse_date(date_str) ==
    CASE ~(\E i \in 1..Len(date_str) : Ch(date_str, i) \in DigitCh) -> NoneV
      [] USDate(Strip(date_str)) -> Str(Strip(date_str))

----------------------------------------------------------------------------
(* StructuredExtractor                                                     *)

\* return cleaned if cleaned else vendor_name_str
CleanedOr(cleaned, vendor_name_str) ==
    IF cleaned # "" THEN cleaned ELSE vendor_name_str

\* the value to return for the vendor_name found by extract_structured_field
CleanedVendorName(vendor_name) ==
    IF Truthy(vendor_name)
    THEN Str(CleanedOr(_clean_vendor_name(ToStrippedStr(vendor_name)),
                       ToStrippedStr(vendor_name)))
    ELSE NoneV

StructuredExtractor_extract_vendor_name(resp) ==
    CleanedVendorName(
        extract_structured_field(resp,
            << <<"vendor_name", TRUE>>, <<"vendor_name", FALSE>>,
               <<"vendor_raw_name", TRUE>>, <<"vendor_raw_name", FALSE>> >>))

\* return str(value).strip() if value else None
StrippedOrNone(value) ==
    IF Truthy(value) THEN Str(ToStrippedStr(value)) ELSE NoneV

StructuredExtractor_extract_vendor_address(resp) ==
    StrippedOrNone(
        extract_structured_field(resp,
            << <<"vendor_address", TRUE>>, <<"vendor_address", FALSE>>,
               <<"vendor_raw_address", TRUE>>, <<"vendor_raw_address", FALSE>> >>))

StructuredExtractor_extract_bill_to_name(resp) ==
    StrippedOrNone(extract_structured_field(resp, << <<"bill_to_name", FALSE>> >>))

StructuredExtractor_extract_invoice_number(resp) ==
    StrippedOrNone(
        extract_structured_field(resp,
            << <<"invoice_number", FALSE>>, <<"invoice_number", TRUE>> >>))

\* (\d{4})-(\d{2})-(\d{2}) at position i
IsoDateAt(s, i) ==
    /\ i >= 1 /\ i + 9 <= Len(s)
    /\ IsDigitStr(SubSeq(s, i, i + 3)) /\ Ch(s, i + 4) = "-"
    /\ IsDigitStr(SubSeq(s, i + 5, i + 6)) /\ Ch(s, i + 7) = "-"
    /\ IsDigitStr(SubSeq(s, i + 8, i + 9))

\* the rest of extract_date for the stripped text of a truthy date value
FormatDate(date_str) ==
    LET hits == {i \in 1..Len(date_str) : IsoDateAt(date_str, i)}
        i == CHOOSE h \in hits : \A g \in hits : h <= g
    IN  IF hits # {}
        THEN Str(SubSeq(date_str, i + 5, i + 6) \o "/"
                 \o SubSeq(date_str, i + 8, i + 9) \o "/"
                 \o SubSeq(date_str, i, i + 3))
        ELSE _parse_date(date_str)

DateOrNone(date_value) ==
    IF Truthy(date_value) THEN FormatDate(ToStrippedStr(date_value)) ELSE NoneV

StructuredExtractor_extract_date(resp) ==
    DateOrNone(extract_structured_field(resp, << <<"date", FALSE>>, <<"date", TRUE>> >>))

----------------------------------------------------------------------------
(* OCRExtractor.extract_vendor_name                                        *)

\* end (exclusive) of the words words[k..], separated by \s+ and read without
\* regard to case, starting at i; 0 when they are not there
RECURSIVE PhraseEnd(_, _, _, _)
PhraseEnd(s, i, words, k) ==
    IF ~AtCI(s, i, words[k]) THEN 0
    ELSE IF k = Len(words) THEN i + Len(words[k])
    ELSE IF RunEnd(s, i + Len(words[k]), SpaceCh, Len(s)) = i + Len(words[k]) THEN 0
    ELSE PhraseEnd(s, RunEnd(s, i + Len(words[k]), SpaceCh, Len(s)), words, k + 1)

\* end (exclusive) of the leftmost occurrence of one of the phrases, 0 when
\* there is none
FirstPhraseEnd(s, phrases) ==
    LET hits == {i \in 1..Len(s) : \E p \in phrases : PhraseEnd(s, i, p, 1) > 0}
        i == CHOOSE h \in hits : \A g \in hits : h <= g
        p == CHOOSE q \in phrases : PhraseEnd(s, i, q, 1) > 0
    IN  IF hits = {} THEN 0 ELSE PhraseEnd(s, i, p, 1)

\* group(1).strip() of \s*:?\s*(.+?)(?:\n|$) matched from position e: the rest
\* of the line that follows the blanks and the optional colon.  When only
\* blanks and a colon are left the match backtracks and captures blanks, or
\* the colon itself when nothing but line ends follows it.
CaptureAfter(s, e) ==
    LET a == RunEnd(s, e, SpaceCh, Len(s))
        b == IF a <= Len(s) /\ Ch(s, a) = ":" THEN a + 1 ELSE a
        p == RunEnd(s, b, SpaceCh, Len(s))
        q == RunEnd(s, p, {Ch(s, k) : k \in 1..Len(s)} \ {"\n"}, Len(s))
    IN  IF p <= Len(s) THEN Strip(SubSeq(s, p, q - 1))
        ELSE IF b > a /\ AllIn(SubSeq(s, b, Len(s)), {"\n"}) THEN ":"
        ELSE ""

\* re.sub(r'[.,;]+$', '', vendor_name).strip()
SubTrailingPunct(vendor_name) ==
    LET keep == {j \in 1..Len(vendor_name) : Ch(vendor_name, j) \notin {".", ",", ";"}}
    IN  IF keep = {} THEN ""
        ELSE Strip(SubSeq(vendor_name, 1, CHOOSE j \in keep : \A g \in keep : g <= j))

payment_patterns ==
    << <<"please", "make", "payments", "to">>,
       <<"make", "payments", "to">>,
       <<"payments", "should", "be", "made", "to">> >>

\* the rest of the loop body for the name captured: the cleaned name, ""
\* when the loop goes on
CapturedVendor(vendor_name) ==
    IF Len(vendor_name) <= 2 THEN "" ELSE _clean_vendor_name(vendor_name)

\* the body of `for pattern in payment_patterns` for a pattern whose leftmost
\* phrase ends at e (0 when the pattern does not match)
PaymentVendor(text, e) ==
    IF e = 0 THEN ""
    ELSE CapturedVendor(SubTrailingPunct(CaptureAfter(text, e)))

\* a if a else b, for names with None modelled by ""
OrName(a, b) == IF a # "" THEN a ELSE b

\* None is modelled by ""
_extract_vendor_from_payment_pattern(text) ==
    OrName(PaymentVendor(text, FirstPhraseEnd(text, {payment_patterns[1]})),
           OrName(PaymentVendor(text, FirstPhraseEnd(text, {payment_patterns[2]})),
                  PaymentVendor(text, FirstPhraseEnd(text, {payment_patterns[3]}))))

false_positives ==
    {"page", "page 1", "page 2", "page 1 of", "page 2 of", "invoice", "date",
     "total", "amount", "due", "bill to", "ship to", "sold to",
     "please make payments"}

\* re.match(r'^#?\s*\d+', line)
NumberedLine(line) ==
    LET h == IF Len(line) >= 1 /\ Ch(line, 1) = "#" THEN 2 ELSE 1
        d == RunEnd(line, h, SpaceCh, Len(line))
    IN  d <= Len(line) /\ Ch(line, d) \in DigitCh

\* for line already stripped; the tests for a page number, a leading date
\* and a leading digit reject only lines that the false positives or
\* NumberedLine reject as well
ValidStrippedLine(line, line_index) ==
    /\ line # ""
    /\ ~ContainsAny(Lower(line), false_positives)
    /\ ~NumberedLine(line)
    /\ Len(line) > 3 /\ Len(line) < 100
    /\ line_index < 8

_is_valid_vendor_line(line, line_index) == ValidStrippedLine(Strip(line), line_index)

\* the loop over lines[:15] from the k-th line on (line_index k - 1)
RECURSIVE FirstLinesFrom(_, _)
FirstLinesFrom(lines, k) ==
    IF k > Len(lines) \/ k > 15 THEN ""
    ELSE IF _is_valid_vendor_line(lines[k], k - 1)
    THEN OrName(_clean_vendor_name(lines[k]), FirstLinesFrom(lines, k + 1))
    ELSE FirstLinesFrom(lines, k + 1)

_extract_vendor_from_first_lines(text) == FirstLinesFrom(SplitLines(text), 1)

\* (?:Inc|LLC|Corp|Ltd|Company|Co)\.? at position j: its end (exclusive), 0
\* when no alternative is there
SuffixEnd(s, j) ==
    LET e == IF At(s, j, "Inc") THEN j + 3
             ELSE IF At(s, j, "LLC") THEN j + 3
             ELSE IF At(s, j, "Corp") THEN j + 4
             ELSE IF At(s, j, "Ltd") THEN j + 3
             ELSE IF At(s, j, "Company") THEN j + 7
             ELSE IF At(s, j, "Co") THEN j + 2
             ELSE 0
    IN  IF e > 0 /\ e <= Len(s) /\ Ch(s, e) = "." THEN e + 1 ELSE e

\* ^([A-Z][A-Za-z\s&]+(?:Inc|LLC|Corp|Ltd|Company|Co)\.?) with re.MULTILINE at
\* the line start i: the end (exclusive) of the match, 0 when there is none.
\* The greedy run gives characters back until a suffix follows.
CompanyMatchEnd(s, i) ==
    LET r == RunEnd(s, i + 1, AlphaCh \cup SpaceCh \cup {"&"}, Len(s))
        ends == {j \in (i + 2)..(r - 1) : SuffixEnd(s, j) > 0}
    IN  IF i > Len(s) \/ Ch(s, i) \notin UpperCh \/ ends = {} THEN 0
        ELSE SuffixEnd(s, CHOOSE j \in ends : \A g \in ends : g <= j)

\* group(1).strip() of the leftmost match of the second vendor pattern, ""
\* when there is none
CompanyCapture(s) ==
    LET starts == {i \in 1..Len(s) :
                      (i = 1 \/ Ch(s, i - 1) = "\n") /\ CompanyMatchEnd(s, i) > 0}
        i == CHOOSE h \in starts : \A g \in starts : h <= g
    IN  IF starts = {} THEN "" ELSE Strip(SubSeq(s, i, CompanyMatchEnd(s, i) - 1))

vendor_keywords == {<<"from">>, <<"vendor">>, <<"supplier">>}

\* group(1).strip() of the leftmost match of the first vendor pattern, whose
\* leftmost keyword ends at e (0 when there is none)
KeywordCapture(text, e) == IF e = 0 THEN "" ELSE CaptureAfter(text, e)

\* the rest of the loop body for the text captured
PatternVendor(result) ==
    IF Len(result) > 3 THEN _clean_vendor_name(result) ELSE ""

_extract_vendor_from_patterns(text) ==
    OrName(PatternVendor(KeywordCapture(text, FirstPhraseEnd(text, vendor_keywords))),
           PatternVendor(CompanyCapture(text)))

\* the vendor name as a str, "" for None
OCRExtractor_extract_vendor_name(text) ==
    OrName(_extract_vendor_from_payment_pattern(text),
           OrName(_extract_vendor_from_first_lines(text),
                  _extract_vendor_from_patterns(text)))

----------------------------------------------------------------------------
(* HybridExtractor                                                         *)

\* an empty dict of extracted data: dict.get gives None for every field
NoData ==
    [vendor_name |-> NoneV, vendor_address |-> NoneV, bill_to_name |-> NoneV,
     invoice_number |-> NoneV, date |-> NoneV, line_items |-> << >>]

\* `if ocr_text is None and response: ocr_text = response.get('ocr_text', '')`
ResolveOcrText(text, resp) ==
    IF text = NoneV /\ TruthyResponse(resp)
    THEN (IF resp.ocr_text.t = "missing" THEN Str("") ELSE resp.ocr_text)
    ELSE text

\* the structured data taken whatever settings.use_structured_data says
_extract_structured_data_FlagIgnored(resp, flag) ==
    IF ~TruthyResponse(resp) THEN NoData
    ELSE [vendor_name |-> StructuredExtractor_extract_vendor_name(resp),
          vendor_address |-> StructuredExtractor_extract_vendor_address(resp),
          bill_to_name |-> StructuredExtractor_extract_bill_to_name(resp),
          invoice_number |-> StructuredExtractor_extract_invoice_number(resp),
          date |-> StructuredExtractor_extract_date(resp),
          line_items |-> extract_from_structured(resp)]

_extract_structured_data(resp, flag) ==
    IF ~TruthyResponse(resp) \/ ~flag THEN NoData
    ELSE [vendor_name |-> StructuredExtractor_extract_vendor_name(resp),
          vendor_address |-> StructuredExtractor_extract_vendor_address(resp),
          bill_to_name |-> StructuredExtractor_extract_bill_to_name(resp),
          invoice_number |-> StructuredExtractor_extract_invoice_number(resp),
          date |-> StructuredExtractor_extract_date(resp),
          line_items |-> extract_from_structured(resp)]

\* '' or None -> None
StrOrNone(s) == IF s = "" THEN NoneV ELSE Str(s)

\* fields holds what OCRExtractor's extractors of the address, the bill-to
\* name, the invoice number and the date, and LineItemExtractor's
\* extract_from_ocr, return for the text; with or without structured line
\* items the line_items of the OCR data are those of extract_from_ocr
_extract_ocr_data(text, structured_data, fields) ==
    IF ~Truthy(text) THEN NoData
    ELSE [vendor_name |-> StrOrNone(OCRExtractor_extract_vendor_name(text.s)),
          vendor_address |-> fields.vendor_address,
          bill_to_name |-> fields.bill_to_name,
          invoice_number |-> fields.invoice_number,
          date |-> fields.date,
          line_items |-> fields.line_items]

\* `if line_items:` improve them
ImprovedIfAny(items) ==
    IF items # << >> THEN extract_and_improve_line_items(items) ELSE items

_extract_and_improve_line_items(resp, text, flag, fields) ==
    IF TruthyResponse(resp) /\ flag THEN ImprovedIfAny(extract_from_structured(resp))
    ELSE IF Truthy(text) THEN ImprovedIfAny(fields.line_items)
    ELSE << >>

_has_payment_pattern(text) ==
    \/ Contains(Lower(text), "please make payments")
    \/ Contains(Lower(text), "make payments to")

_select_vendor_name(structured_data, ocr_data, text) ==
    IF /\ Truthy(text)
       /\ OCRExtractor_extract_vendor_name(text.s) # ""
       /\ _has_payment_pattern(text.s)
    THEN Str(OCRExtractor_extract_vendor_name(text.s))
    ELSE Or(structured_data.vendor_name, ocr_data.vendor_name)

\* the same combination with the OCR value tried first
_combine_extracted_fields_OcrFirst(structured_data, ocr_data, items, text) ==
    [vendor_name |-> _select_vendor_name(structured_data, ocr_data, text),
     vendor_address |-> Or(Or(ocr_data.vendor_address, structured_data.vendor_address), NoneV),
     bill_to_name |-> Or(Or(ocr_data.bill_to_name, structured_data.bill_to_name), NoneV),
     invoice_number |-> Or(Or(ocr_data.invoice_number, structured_data.invoice_number), NoneV),
     date |-> Or(Or(ocr_data.date, structured_data.date), NoneV),
     line_items |-> items]

_combine_extracted_fields(structured_data, ocr_data, items, text) ==
    [vendor_name |-> _select_vendor_name(structured_data, ocr_data, text),
     vendor_address |-> Or(Or(structured_data.vendor_address, ocr_data.vendor_address), NoneV),
     bill_to_name |-> Or(Or(structured_data.bill_to_name, ocr_data.bill_to_name), NoneV),
     invoice_number |-> Or(Or(structured_data.invoice_number, ocr_data.invoice_number), NoneV),
     date |-> Or(Or(structured_data.date, ocr_data.date), NoneV),
     line_items |-> items]

\* extract_all_fields once ocr_text is resolved
ExtractWithText(text, resp, flag, fields) ==
    _combine_extracted_fields(
        _extract_structured_data(resp, flag),
        _extract_ocr_data(text, _extract_structured_data(resp, flag), fields),
        _extract_and_improve_line_items(resp, text, flag, fields),
        text)

extract_all_fields(text, resp, flag, fields) ==
    ExtractWithText(ResolveOcrText(text, resp), resp, flag, fields)

----------------------------------------------------------------------------
(* LineItemExtractor.extract_from_ocr (extractors/line_item_extractor.py). *)
(* A partly built item is a record whose sku and description are "" while  *)
(* the key is absent (a key that is set is never empty) and whose numbers  *)
(* are Missing while the key is absent, else Num(hundredths): the floats   *)
(* are exact for numerals of at most two decimals.                         *)

EmptyItem ==
    [sku |-> "", description |-> "", quantity |-> Missing, price |-> Missing,
     tax_rate |-> Missing, total |-> Missing]

\* any(current_item.values())
AnyValue(item) ==
    \/ item.sku # "" \/ item.description # ""
    \/ Truthy(item.quantity) \/ Truthy(item.price)
    \/ Truthy(item.tax_rate) \/ Truthy(item.total)

SkuCh == UpperCh \cup DigitCh \cup {"-"}

\* c is the character of s at i
IsCh(s, i, C) == i >= 1 /\ i <= Len(s) /\ Ch(s, i) \in C

\* \d+\.?\d* from i, d the end of the leading digits: end (exclusive) of
\* the match, i when there is no digit at i
DecimalEndAfter(s, i, d) ==
    IF d = i THEN i
    ELSE IF IsCh(s, d, {"."}) THEN RunEnd(s, d + 1, DigitCh, Len(s)) ELSE d

DecimalEnd(s, i) == DecimalEndAfter(s, i, RunEnd(s, i, DigitCh, Len(s)))

\* float(text) in hundredths for text matching \d+\.?\d*
HundredthsAfter(text, d) ==
    100 * IntOf(SubSeq(text, 1, d - 1))
    + (IF d + 1 > Len(text) THEN 0
       ELSE IF d + 1 = Len(text) THEN 10 * IntOf(SubSeq(text, d + 1, d + 1))
       ELSE IntOf(SubSeq(text, d + 1, d + 2)))

HundredthsOf(text) == HundredthsAfter(text, RunEnd(text, 1, DigitCh, Len(text)))

\* re.match(r'^\d+\.?\d*\s+', line): end (exclusive) of group (\d+\.?\d*),
\* 0 when there is no match
NumberAtStartEnd(line) ==
    IF DecimalEnd(line, 1) > 1 /\ IsCh(line, DecimalEnd(line, 1), SpaceCh)
    THEN DecimalEnd(line, 1) ELSE 0

\* sku_patterns[0..2]: the position after the label of the pattern when the
\* label stands at i, 0 otherwise
SkuLabelEnd(label, s, i) ==
    CASE label = "sku" -> IF AtCI(s, i, "sku") THEN i + 3 ELSE 0
      [] label = "item" ->
            IF AtCI(s, i, "item") /\ IsCh(s, RunEnd(s, i + 4, SpaceCh, Len(s)), {"#"})
            THEN RunEnd(s, i + 4, SpaceCh, Len(s)) + 1 ELSE 0
      [] label = "product" ->
            IF AtCI(s, i, "product") /\ AtCI(s, RunEnd(s, i + 7, SpaceCh, Len(s)), "code")
            THEN RunEnd(s, i + 7, SpaceCh, Len(s)) + 4 ELSE 0

\* \s*:?\s* from p: where the group ([A-Z0-9\-]+) starts
SkuGroupStart(s, p) ==
    IF IsCh(s, RunEnd(s, p, SpaceCh, Len(s)), {":"})
    THEN RunEnd(s, RunEnd(s, p, SpaceCh, Len(s)) + 1, SpaceCh, Len(s))
    ELSE RunEnd(s, p, SpaceCh, Len(s))

\* group 1 of the pattern matched at i, "" when it does not match there
\* (re.IGNORECASE makes the class take lower-case letters too)
SkuGroupOf(s, g) == SubSeq(s, g, RunEnd(s, g, SkuCh \cup LowerCh, Len(s)) - 1)

SkuMatchAt(label, s, i) ==
    IF SkuLabelEnd(label, s, i) = 0 THEN ""
    ELSE SkuGroupOf(s, SkuGroupStart(s, SkuLabelEnd(label, s, i)))

FirstNonEmpty(a, b) == IF a # "" THEN a ELSE b

\* group 1 of the leftmost match that starts in i..j, "" when there is
\* none, by halves
RECURSIVE SkuSearchFrom(_, _, _, _)
SkuSearchFrom(label, s, i, j) ==
    IF i > j THEN ""
    ELSE IF i = j THEN SkuMatchAt(label, s, i)
    ELSE FirstNonEmpty(SkuSearchFrom(label, s, i, (i + j) \div 2),
                       SkuSearchFrom(label, s, (i + j) \div 2 + 1, j))

\* pattern.search(line).group(1), "" when the search fails
SkuSearch(label, s) == SkuSearchFrom(label, s, 1, Len(s))

sku_labels == << "sku", "item", "product" >>

\* [-\+]?\$?\s* from i: where group 1 of price_pattern starts
PriceGroupStart(s, i) ==
    RunEnd(s, RunEnd(s, RunEnd(s, i, {"-", "+"}, 1), {"$"}, 1), SpaceCh, Len(s))

\* price_pattern matched at i: end (exclusive) of the match, 0 when none
PriceEndAt(s, i) == AmountEndFrom(s, PriceGroupStart(s, i))

\* price_pattern.search(s) is not None
PriceSearch(s) == \E i \in 1..Len(s) : PriceEndAt(s, i) > 0

\* line.split()[0] for a stripped, non-empty line
FirstToken(line) == SubSeq(line, 1, WordEnd(line, 1) - 1)

\* the three tests that make a line the start of a new item
StartsNewItem(line) ==
    \/ NumberAtStartEnd(line) > 0
    \/ \E k \in 1..3 : SkuSearch(sku_labels[k], line) # ""
    \/ PriceSearch(FirstToken(line))

totals_indicators ==
    {"subtotal", "sub total", "sub-total", "tax", "sales tax", "tax amount",
     "total", "total due", "amount due", "balance", "grand total",
     "invoice total", "final total", "payment due", "amount owed"}

\* re.match(r'^(?:invoice|bill|statement)\s+' + indicator, line_lower)
AfterPrefix(line_lower, prefix, indicator) ==
    /\ At(line_lower, 1, prefix)
    /\ IsCh(line_lower, Len(prefix) + 1, SpaceCh)
    /\ At(line_lower, RunEnd(line_lower, Len(prefix) + 1, SpaceCh, Len(line_lower)),
          indicator)

\* the test of one indicator in `for indicator in totals_indicators`
IndicatorStops(line_lower, indicator) ==
    \/ At(line_lower, 1, indicator)
    \/ \E prefix \in {"invoice", "bill", "statement"} :
           AfterPrefix(line_lower, prefix, indicator)
    \/ /\ Contains(line_lower, indicator)
       /\ ContainsAny(line_lower, {":", "=", "$"})

\* is_totals_section for a stripped line
is_totals_section(line) ==
    \E indicator \in totals_indicators : IndicatorStops(Lower(line), indicator)

\* the first of sku_patterns[:3] whose group has 3 to 20 characters
RECURSIVE ExplicitSkuFrom(_, _)
ExplicitSkuFrom(line, k) ==
    IF k > 3 THEN ""
    ELSE IF Len(SkuSearch(sku_labels[k], line)) >= 3
            /\ Len(SkuSearch(sku_labels[k], line)) <= 20
    THEN SkuSearch(sku_labels[k], line)
    ELSE ExplicitSkuFrom(line, k + 1)

\* re.search(r'^([A-Z0-9\-]{3,15})\s+', line): group 1 unless it is all
\* digits or starts like a date, "" otherwise
CodeAtStartOf(line, r) ==
    IF r - 1 < 3 \/ ~IsCh(line, r, SpaceCh) THEN ""
    ELSE IF IsDigitStr(SubSeq(line, 1, r - 1)) THEN ""
    ELSE IF /\ IsCh(line, RunEnd(line, 1, DigitCh, 2), {"/", "-"})
            /\ RunEnd(line, 1, DigitCh, 2) > 1
            /\ IsCh(line, RunEnd(line, 1, DigitCh, 2) + 1, DigitCh)
    THEN ""
    ELSE SubSeq(line, 1, r - 1)

code_at_start(line) == CodeAtStartOf(line, RunEnd(line, 1, SkuCh, 15))

\* re.search(r'\(([A-Z0-9\-]{3,20})\)', line): group 1, "" when none
ParenCodeAt(line, i) ==
    IF /\ Ch(line, i) = "("
       /\ RunEnd(line, i + 1, SkuCh, 20) - (i + 1) >= 3
       /\ IsCh(line, RunEnd(line, i + 1, SkuCh, 20), {")"})
    THEN SubSeq(line, i + 1, RunEnd(line, i + 1, SkuCh, 20) - 1)
    ELSE ""

\* the leftmost match that starts in i..j, by halves
RECURSIVE ParenCodeFrom(_, _, _)
ParenCodeFrom(line, i, j) ==
    IF i > j THEN ""
    ELSE IF i = j THEN ParenCodeAt(line, i)
    ELSE FirstNonEmpty(ParenCodeFrom(line, i, (i + j) \div 2),
                       ParenCodeFrom(line, (i + j) \div 2 + 1, j))

paren_code(line) == ParenCodeFrom(line, 1, Len(line))

\* the SKU block: the sku of the item after the line
SkuAfter(item, line) ==
    IF item.sku # "" THEN item.sku
    ELSE FirstNonEmpty(ExplicitSkuFrom(line, 1),
                       FirstNonEmpty(code_at_start(line), paren_code(line)))

\* 0.01 <= qty_val <= 1000000, the value in hundredths
ReasonableQuantity(h) == 1 <= h /\ h <= 100000000

\* r'\b(\d+\.\d+)\s+(?![$])' matched at i, d the end of the leading digits
\* and e the end of the numeral: \s+ gives one space back when the
\* lookahead meets a '$'
DecimalQuantityAt(s, i, d, e) ==
    /\ WordBoundary(s, i)
    /\ d > i /\ IsCh(s, d, {"."}) /\ e > d + 1
    /\ IsCh(s, e, SpaceCh)
    /\ \/ ~IsCh(s, RunEnd(s, e, SpaceCh, Len(s)), {"$"})
       \/ RunEnd(s, e, SpaceCh, Len(s)) - e >= 2

\* group 1 of the leftmost match that starts in i..j, "" when there is
\* none, by halves
RECURSIVE DecimalQuantityFrom(_, _, _)
DecimalQuantityFrom(s, i, j) ==
    IF i > j THEN ""
    ELSE IF i = j
    THEN (IF DecimalQuantityAt(s, i, RunEnd(s, i, DigitCh, Len(s)), DecimalEnd(s, i))
          THEN SubSeq(s, i, DecimalEnd(s, i) - 1) ELSE "")
    ELSE FirstNonEmpty(DecimalQuantityFrom(s, i, (i + j) \div 2),
                       DecimalQuantityFrom(s, (i + j) \div 2 + 1, j))

\* r'^\s*(\d+\.\d+)\s+' on a stripped line: group 1, "" when none
DecimalAtStart(line) ==
    IF /\ RunEnd(line, 1, DigitCh, Len(line)) > 1
       /\ IsCh(line, RunEnd(line, 1, DigitCh, Len(line)), {"."})
       /\ DecimalEnd(line, 1) > RunEnd(line, 1, DigitCh, Len(line)) + 1
       /\ IsCh(line, DecimalEnd(line, 1), SpaceCh)
    THEN SubSeq(line, 1, DecimalEnd(line, 1) - 1) ELSE ""

\* Num(h) when the numeral is there and reasonable, Missing otherwise
QuantityOf(text) ==
    IF text # "" /\ ReasonableQuantity(HundredthsOf(text)) THEN Num(HundredthsOf(text))
    ELSE Missing

\* `for qty_pat in qty_patterns`
DecimalQuantity(line) ==
    Or(QuantityOf(DecimalQuantityFrom(line, 1, Len(line))), QuantityOf(DecimalAtStart(line)))

\* the quantity block: the quantity of the item after the line
QuantityAfter(item, line) ==
    IF Truthy(item.quantity) THEN item.quantity
    ELSE IF NumberAtStartEnd(line) > 0
            /\ ReasonableQuantity(HundredthsOf(SubSeq(line, 1, NumberAtStartEnd(line) - 1)))
    THEN Num(HundredthsOf(SubSeq(line, 1, NumberAtStartEnd(line) - 1)))
    ELSE DecimalQuantity(line)

\* the keyword lists of the price block and of the description block
price_discount_keywords == {"discount", "credit", "refund", "deduction", "adjustment"}
description_discount_keywords == {"discount", "credit", "refund", "deduction"}

\* the positions of text where a discount keyword starts
KeywordPositions(text) ==
    {p \in 1..Len(text) : \E kw \in price_discount_keywords : At(text, p, kw)}

\* max(line_before_price.rfind(kw) ...), positions numbered from 1
LastKeywordPos(text) ==
    CHOOSE p \in KeywordPositions(text) : \A q \in KeywordPositions(text) : q <= p

\* Method 3: a discount keyword before the price with no digit in between
KeywordBefore(before) ==
    /\ KeywordPositions(before) # {}
    /\ \A k \in LastKeywordPos(before)..Len(before) : Ch(before, k) \notin DigitCh

\* is_negative for the match that starts at i
is_negative(line, i) ==
    \/ Ch(line, i) = "-"
    \/ IsCh(line, i - 1, {"-"})
    \/ i > 2 /\ Ch(line, i - 2) = "-" /\ Ch(line, i - 1) \in SpaceCh
    \/ KeywordBefore(Lower(SubSeq(line, 1, i - 1)))

\* one element of price_values: the match starts at i, group 1 is text
PriceValue(line, i, text) ==
    IF is_negative(line, i) THEN 0 - CentsOf(text) ELSE CentsOf(text)

\* where the leftmost match of price_pattern that starts in i..j starts, 0
\* when there is none, by halves
RECURSIVE PriceStartIn(_, _, _)
PriceStartIn(line, i, j) ==
    IF i > j THEN 0
    ELSE IF i = j THEN (IF PriceEndAt(line, i) > 0 THEN i ELSE 0)
    ELSE FirstPosition(PriceStartIn(line, i, (i + j) \div 2),
                       PriceStartIn(line, (i + j) \div 2 + 1, j))

\* price_values: `for match in price_matches`, p the start of the next
\* match
RECURSIVE PriceValuesFrom(_, _)
PriceValuesFrom(line, p) ==
    IF p = 0 THEN << >>
    ELSE << PriceValue(line, p, SubSeq(line, PriceGroupStart(line, p), PriceEndAt(line, p) - 1)) >>
         \o PriceValuesFrom(line, PriceStartIn(line, PriceEndAt(line, p), Len(line)))

price_values(line) == PriceValuesFrom(line, PriceStartIn(line, 1, Len(line)))

NegAbs(n) == IF n > 0 THEN 0 - n ELSE n

\* is_discount_line
IsDiscountLine(item, line) ==
    \/ ContainsAny(Lower(item.description), price_discount_keywords)
    \/ ContainsAny(Lower(line), price_discount_keywords)

Signed(discount, n) == IF discount THEN NegAbs(n) ELSE n

\* `if not current_item.get('price')`
PriceSet(item, values, discount) ==
    IF Truthy(item.price) THEN item
    ELSE [item EXCEPT !.price = Num(Signed(discount, values[1]))]

\* the two branches that set the total
TotalSet(item, values, discount) ==
    IF Truthy(item.total) THEN item
    ELSE [item EXCEPT !.total = Num(Signed(discount, values[Len(values)]))]

\* the final consistency check of the price block
PriceConsistent(item) ==
    IF /\ Truthy(item.total) /\ Truthy(item.price)
       /\ item.total.n < 0 /\ item.price.n > 0
       /\ ContainsAny(Lower(item.description), price_discount_keywords)
    THEN [item EXCEPT !.price = Num(NegAbs(item.price.n))]
    ELSE item

\* the price block
PricesAfter(item, line, values) ==
    IF values = << >> THEN item
    ELSE PriceConsistent(
             TotalSet(PriceSet(item, values, IsDiscountLine(item, line)),
                      values, IsDiscountLine(item, line)))

\* group 1 of tax_rate_pattern matched at i, "" when it does not match
TaxRateAt(line, i) ==
    IF /\ DecimalEnd(line, i) > i
       /\ IsCh(line, RunEnd(line, DecimalEnd(line, i), SpaceCh, Len(line)), {"%"})
    THEN SubSeq(line, i, DecimalEnd(line, i) - 1)
    ELSE ""

\* group 1 of the leftmost match that starts in i..j, by halves
RECURSIVE TaxRateFrom(_, _, _)
TaxRateFrom(line, i, j) ==
    IF i > j THEN ""
    ELSE IF i = j THEN TaxRateAt(line, i)
    ELSE FirstNonEmpty(TaxRateFrom(line, i, (i + j) \div 2),
                       TaxRateFrom(line, (i + j) \div 2 + 1, j))

\* tax_rate_pattern.search(line).group(1), "" when the search fails
TaxRateSearch(line) == TaxRateFrom(line, 1, Len(line))

\* the tax-rate block.  Each of alt_tax_patterns contains tax_rate_pattern,
\* so the else branch that tries them never finds a match.
TaxRateAfter(item, line) ==
    IF Truthy(item.tax_rate) THEN item.tax_rate
    ELSE IF TaxRateSearch(line) = "" THEN item.tax_rate
    ELSE IF HundredthsOf(TaxRateSearch(line)) <= 10000
    THEN Num(HundredthsOf(TaxRateSearch(line)))
    ELSE item.tax_rate

\* len([c for c in line_clean[:10] if c.isdigit()]) > 5
is_mostly_numbers(line_clean) ==
    Cardinality({k \in 1..10 : IsCh(line_clean, k, DigitCh)}) > 5

is_likely_description(line) ==
    \/ \E k \in 1..Len(line) : Ch(line, k) \in AlphaCh
    \/ /\ Len(line) > 15
       /\ ~is_mostly_numbers(Strip(RemoveChars(line, {".", ","})))

\* re.match(r'^\d+\.?\d*\s+[A-Z]', line)
QuantityThenCapital(line) ==
    /\ NumberAtStartEnd(line) > 0
    /\ IsCh(line, RunEnd(line, NumberAtStartEnd(line), SpaceCh, Len(line)), UpperCh)

looks_like_continuation(line) ==
    \/ ~QuantityThenCapital(line)
    \/ Len(line) < 30
    \/ Ch(line, 1) \in LowerCh
    \/ ~ContainsAny(Lower(line), {"transport", "installation", "carrier", "discount"})

\* the price turns negative when the description names a discount
NegativeIfDiscount(item) ==
    IF /\ ContainsAny(Lower(item.description), description_discount_keywords)
       /\ Truthy(item.price) /\ item.price.n > 0
    THEN [item EXCEPT !.price = Num(NegAbs(item.price.n))]
    ELSE item

\* current_item['description'] += '\n' + line, then the discount check
Continued(item, line) ==
    NegativeIfDiscount([item EXCEPT !.description = item.description \o "\n" \o line])

\* The description block: the current item and the list after the line.
DescriptionAfter(item, items, line) ==
    IF is_likely_description(line)
    THEN IF item.description = ""
         THEN [current_item |-> NegativeIfDiscount([item EXCEPT !.description = line]),
               line_items |-> items]
         ELSE IF looks_like_continuation(line) \/ Len(item.description) < 50
         THEN [current_item |-> Continued(item, line), line_items |-> items]
         ELSE [current_item |-> [EmptyItem EXCEPT !.description = line],
               line_items |-> IF AnyValue(item) THEN Append(items, item) ELSE items]
    ELSE IF item.description = "" /\ Len(line) > 10
    THEN [current_item |-> [item EXCEPT !.description = line], line_items |-> items]
    ELSE [current_item |-> item, line_items |-> items]

\* the field blocks of one line: the sku, quantity and tax-rate blocks read
\* only their own field, the price block reads the description
FieldsAfter(item, line) ==
    PricesAfter(
        [item EXCEPT !.sku = SkuAfter(item, line),
                     !.quantity = QuantityAfter(item, line),
                     !.tax_rate = TaxRateAfter(item, line)],
        line, price_values(line))

\* `if not line:` an empty line closes an item that has complete data
has_complete_data(item) ==
    \/ Truthy(item.price) \/ Truthy(item.total) \/ Len(item.description) > 30

AfterEmptyLine(item, items) ==
    IF item # EmptyItem /\ has_complete_data(item) /\ AnyValue(item)
    THEN [current_item |-> EmptyItem, line_items |-> Append(items, item)]
    ELSE [current_item |-> item, line_items |-> items]

\* the check for the start of a new item
AfterNewItemCheck(item, items, line) ==
    IF /\ item.description # ""
       /\ (Truthy(item.price) \/ Truthy(item.total))
       /\ StartsNewItem(line)
    THEN [current_item |-> EmptyItem,
          line_items |-> IF AnyValue(item) THEN Append(items, item) ELSE items]
    ELSE [current_item |-> item, line_items |-> items]

\* `if is_totals_section:` the current item is saved and stays current
AfterTotalsLine(st) ==
    [current_item |-> st.current_item,
     line_items |-> IF st.current_item # EmptyItem /\ AnyValue(st.current_item)
                    THEN Append(st.line_items, st.current_item) ELSE st.line_items]

\* a line that is neither empty nor a totals line, st the state after the
\* check for a new item
AfterItemLine(st, line) ==
    DescriptionAfter(FieldsAfter(st.current_item, line), st.line_items, line)

\* the header scan: True when the line names the columns of the item table
is_header_line(line_lower) ==
    /\ ContainsAny(line_lower, {"item", "description", "qty", "quantity", "price", "amount"})
    /\ ContainsAny(line_lower, {"sku", "item", "description", "qty", "quantity", "price", "total"})

\* item_section_start as an index into lines[1..], lines numbered from 1
RECURSIVE SectionStartFrom(_, _)
SectionStartFrom(lines, k) ==
    IF k > Len(lines) THEN 1
    ELSE IF is_header_line(Lower(lines[k])) THEN k + 1
    ELSE SectionStartFrom(lines, k + 1)

item_section_start(lines) == SectionStartFrom(lines, 1)

\* item.get(key, 0.0)
GetOrZero(v) == IF v.t = "missing" THEN 0 ELSE v.n

\* one item of the clean-up pass
CleanedItem(item) ==
    [sku |-> item.sku,
     description |-> item.description,
     quantity |-> GetOrZero(item.quantity),
     price |-> IF /\ GetOrZero(item.total) < 0 /\ GetOrZero(item.price) > 0
                  /\ ContainsAny(Lower(item.description), price_discount_keywords)
               THEN 0 - GetOrZero(item.price) ELSE GetOrZero(item.price),
     tax_rate |-> GetOrZero(item.tax_rate),
     total |-> GetOrZero(item.total)]

\* every item is included
IsKept_Always(cleaned_item) == TRUE

\* cleaned_item['description'] or cleaned_item['sku']
IsKept(cleaned_item) == cleaned_item.description # "" \/ cleaned_item.sku # ""

\* cleaned_items: only the items with a description or a sku
RECURSIVE CleanedItemsFrom(_, _)
CleanedItemsFrom(items, k) ==
    IF k > Len(items) THEN << >>
    ELSE (IF IsKept(CleanedItem(items[k]))
          THEN << CleanedItem(items[k]) >> ELSE << >>)
         \o CleanedItemsFrom(items, k + 1)

cleaned_items(items) == CleanedItemsFrom(items, 1)

\* the parse loop from line k to the end, st the state before line k; the
\* loop ends at a totals line
RECURSIVE ParseFrom(_, _, _)
ParseLine(st, line) ==
    IF line = "" THEN AfterEmptyLine(st.current_item, st.line_items)
    ELSE AfterItemLine(AfterNewItemCheck(st.current_item, st.line_items, line), line)

ParseFrom(lines, k, st) ==
    IF k > Len(lines) THEN st
    ELSE IF Strip(lines[k]) # "" /\ is_totals_section(Strip(lines[k]))
    THEN AfterTotalsLine(AfterNewItemCheck(st.current_item, st.line_items, Strip(lines[k])))
    ELSE ParseFrom(lines, k + 1, ParseLine(st, Strip(lines[k])))

\* `# Add last item if exists`
WithLastItem(st) ==
    IF st.current_item # EmptyItem /\ AnyValue(st.current_item)
    THEN Append(st.line_items, st.current_item) ELSE st.line_items

extract_from_ocr(text) ==
    cleaned_items(
        WithLastItem(
            ParseFrom(SplitLines(text), item_section_start(SplitLines(text)),
                      [current_item |-> EmptyItem, line_items |-> << >>])))

----------------------------------------------------------------------------
(* MetricsCollector (core/metrics.py).  counters and errors are            *)
(* defaultdict(int): a key that was never written reads 0.  timings and    *)
(* metrics are lists; the model keeps their lengths.                       *)

CounterNames == {"invoices_processed", "invoice_processing_errors"}

ExceptionTypes == {"ValueError", "KeyError"}

ErrorKeys ==
    {"invoice_processing:" \o error_type : error_type \in ExceptionTypes \cup {"invalid_format"}}

\* MetricsCollector.__init__
NewMetrics ==
    [counters |-> [name \in CounterNames |-> 0],
     errors |-> [key \in ErrorKeys |-> 0],
     timings |-> 0,
     metrics |-> 0]

increment(m, name) ==
    [m EXCEPT !.counters[name] = @ + 1, !.metrics = @ + 1]

record_timing(m) ==
    [m EXCEPT !.timings = @ + 1, !.metrics = @ + 1]

record_error(m, name, error_type) ==
    increment([m EXCEPT !.errors[name \o ":" \o error_type] = @ + 1], name \o "_errors")

\* MetricsCollector.get_error_count("invoice_processing")
RECURSIVE SumErrors(_, _)
SumErrors(m, keys) ==
    IF keys = {} THEN 0
    ELSE m.errors[CHOOSE key \in keys : TRUE]
         + SumErrors(m, keys \ {CHOOSE key \in keys : TRUE})

get_error_count(m) == SumErrors(m, ErrorKeys)

----------------------------------------------------------------------------
(* InvoiceService.process_invoice (services/invoice_service.py).  The      *)
(* format validator, the extractor, the JSON generator and the data        *)
(* validator are injected: each either returns or raises an exception.     *)

\* Result.success_result / Result.failure_result
success_result(value) == [success |-> TRUE, value |-> value, error |-> ""]
failure_result(error) == [success |-> FALSE, value |-> "", error |-> error]

\* what the injected components do when they are called, and the exception
\* that a raising component raises
AllBehaviours ==
    [is_valid_invoice_format : {"valid", "invalid", "raise"},
     extract_all_fields : {"return", "raise"},
     generate_json : {"return", "raise"},
     validate : {"valid", "invalid", "raise"},
     exception : ExceptionTypes]

\* a component that is never reached is kept at its first behaviour, so
\* that each course of a call is counted once
ReachedOnly(does) ==
    /\ does.is_valid_invoice_format # "valid" => does.extract_all_fields = "return"
    /\ (does.is_valid_invoice_format # "valid" \/ does.extract_all_fields = "raise")
           => does.generate_json = "return"
    /\ (\/ does.is_valid_invoice_format # "valid" \/ does.extract_all_fields = "raise"
        \/ does.generate_json = "raise")
           => does.validate = "valid"
    /\ (\A component \in {"is_valid_invoice_format", "extract_all_fields",
                           "generate_json", "validate"} : does[component] # "raise")
           => does.exception = "ValueError"

Behaviours == {does \in AllBehaviours : ReachedOnly(does)}

\* `if ocr_text is None and response: ocr_text = response.get('ocr_text', '')`
ServiceOcrText(text, resp) ==
    IF text.t = "none" /\ TruthyResponse(resp)
    THEN (IF resp.ocr_text.t = "missing" THEN Str("") ELSE resp.ocr_text)
    ELSE text

\* the outcome of the call: what was invoked, the Result, and the metrics
Outcome(invoked, result, m) == [invoked |-> invoked, result |-> result, metrics |-> m]

\* the except branch without its record_error
Failed_Unrecorded(invoked, does, m) ==
    Outcome(invoked, failure_result("Failed to process invoice: " \o does.exception), m)

\* the except branch
Failed(invoked, does, m) ==
    Outcome(invoked,
            failure_result("Failed to process invoice: " \o does.exception),
            record_error(m, "invoice_processing", does.exception))

\* from generate_json on, invoked the components called so far
AfterExtraction(invoked, does, m) ==
    IF does.generate_json = "raise"
    THEN Failed(invoked \cup {"generate_json"}, does, m)
    ELSE IF does.validate = "raise"
    THEN Failed(invoked \cup {"generate_json", "validate"}, does, m)
    ELSE Outcome(invoked \cup {"generate_json", "validate"},
                 success_result("json_data"),
                 increment(m, "invoices_processed"))

\* from extract_all_fields on
FromExtraction(invoked, does, m) ==
    IF does.extract_all_fields = "raise"
    THEN Failed(invoked \cup {"extract_all_fields"}, does, m)
    ELSE AfterExtraction(invoked \cup {"extract_all_fields"}, does, m)

\* the body with a format check that only records the error
TimedBody_GoesOn(text, does, m) ==
    IF ~Truthy(text) THEN FromExtraction({}, does, m)
    ELSE IF does.is_valid_invoice_format = "raise"
    THEN Failed({"is_valid_invoice_format"}, does, m)
    ELSE IF does.is_valid_invoice_format = "invalid"
    THEN FromExtraction({"is_valid_invoice_format"}, does,
                        record_error(m, "invoice_processing", "invalid_format"))
    ELSE FromExtraction({"is_valid_invoice_format"}, does, m)

\* the body of the `with Timer(...)` block, text the resolved OCR text
TimedBody(text, does, m) ==
    IF ~Truthy(text) THEN FromExtraction({}, does, m)
    ELSE IF does.is_valid_invoice_format = "raise"
    THEN Failed({"is_valid_invoice_format"}, does, m)
    ELSE IF does.is_valid_invoice_format = "invalid"
    THEN Outcome({"is_valid_invoice_format"},
                 failure_result("Document does not match expected invoice format"),
                 record_error(m, "invoice_processing", "invalid_format"))
    ELSE FromExtraction({"is_valid_invoice_format"}, does, m)

\* Timer.__exit__ records the timing before the except branch runs and
\* before a return leaves the block; the two write different keys
process_invoice(resp, text, does, m) ==
    TimedBody(ServiceOcrText(text, resp), does, record_timing(m))

----------------------------------------------------------------------------
(* JSONGenerator.generate_json (json_generator.py) and                     *)
(* DataValidator.validate (validators/data_validator.py).  A dict is a     *)
(* TLA+ function from its keys; a value of invoice_data is a tagged Python *)
(* value, a key that is absent being Missing.  Integers stay within the    *)
(* range of a float.                                                       *)

\* value is None (dict.get gives None for an absent key), else
\* str(value).strip() for a str or an int
_safe_str(value) ==
    IF value.t \in {"missing", "none"} THEN Str("")
    ELSE IF value.t = "str" THEN Str(Strip(value.s))
    ELSE Str(StrOfInt(value.n))

\* float(value) without the try: the value comes back as it is
_safe_float_Unconverted(value, default) ==
    IF value.t \in {"missing", "none"} THEN Num(default) ELSE value

\* float(value): a number or a numeral converts, any other str raises
\* ValueError and a dict raises TypeError
_safe_float(value, default) ==
    IF value.t \in {"missing", "none"} THEN Num(default)
    ELSE IF value.t \in {"num", "numstr"} THEN Num(value.n)
    ELSE Num(default)

\* the line_item built from an item that is a dict
JsonLineItem(item) ==
    [sku |-> _safe_str(item.sku),
     description |-> _safe_str(item.description),
     quantity |-> _safe_float(item.quantity, 0),
     price |-> _safe_float(item.price, 0),
     tax_rate |-> _safe_float(item.tax_rate, 0),
     total |-> _safe_float(item.total, 0)]

\* `for item in line_items`
RECURSIVE JsonLineItemsFrom(_, _)
JsonLineItemsFrom(items, k) ==
    IF k > Len(items) THEN << >>
    ELSE (IF items[k].isdict THEN << JsonLineItem(items[k]) >> ELSE << >>)
         \o JsonLineItemsFrom(items, k + 1)

\* invoice_data.get('line_items', []), replaced by [] unless it is a list
JsonLineItems(data) ==
    IF data.line_items.t = "list" THEN JsonLineItemsFrom(data.line_items.items, 1)
    ELSE << >>

\* json_output before the metadata
JsonFields(data) ==
    [vendor_name |-> _safe_str(data.vendor_name),
     vendor_address |-> _safe_str(data.vendor_address),
     bill_to_name |-> _safe_str(data.bill_to_name),
     invoice_number |-> _safe_str(data.invoice_number),
     date |-> _safe_str(data.date),
     line_items |-> JsonLineItems(data)]

\* json_output['_metadata']
Metadata(file) == [source_file |-> file, extraction_timestamp |-> NoneV]

generate_json(data, file) ==
    IF Truthy(file) THEN JsonFields(data) @@ ("_metadata" :> Metadata(file))
    ELSE JsonFields(data)

required_fields ==
    {"vendor_name", "vendor_address", "bill_to_name", "invoice_number", "date", "line_items"}

required_line_item_fields == {"sku", "description", "quantity", "price", "tax_rate", "total"}

\* DataValidator.validate for data a dict whose line_items, when present,
\* is a list of dicts
validate(data) ==
    /\ required_fields \subseteq DOMAIN data
    /\ \A k \in 1..Len(data["line_items"]) :
           required_line_item_fields \subseteq DOMAIN data["line_items"][k]

\* `if filename: invoice_data['_source_file'] = filename` in process_invoice
WithSourceFile(data, file) ==
    IF Truthy(file) THEN [data EXCEPT !["_source_file"] = file] ELSE data

----------------------------------------------------------------------------
(* CircuitBreaker (core/retry.py).  time.time() is the clock `now`, in     *)
(* whole seconds.  The protected function either returns a value or raises *)
(* an exception of one of two types; expected_exception is one of them or  *)
(* their base class Exception.                                             *)

\* CircuitBreaker.__init__
NewBreaker(failure_threshold, recovery_timeout, expected_exception) ==
    [failure_threshold |-> failure_threshold,
     recovery_timeout |-> recovery_timeout,
     expected_exception |-> expected_exception,
     failure_count |-> 0,
     last_failure_time |-> NoneV,
     state |-> "closed"]

\* isinstance(e, expected_exception) as the except clause tests it
IsExpected(b, error_type) ==
    b.expected_exception = "Exception" \/ b.expected_exception = error_type

\* the test with >= in place of >
RecoveryDue_AtTimeout(b, t) ==
    t - Or(b.last_failure_time, Num(0)).n >= b.recovery_timeout

\* time.time() - (self.last_failure_time or 0) > self.recovery_timeout
RecoveryDue(b, t) ==
    t - Or(b.last_failure_time, Num(0)).n > b.recovery_timeout

\* the open circuit lets no call through before the timeout
Blocked(b, t) == b.state = "open" /\ ~RecoveryDue(b, t)

\* the breaker when the function is about to be called
Entered(b, t) ==
    IF b.state = "open" /\ RecoveryDue(b, t) THEN [b EXCEPT !.state = "half_open"]
    ELSE b

\* the success branch without the reset of failure_count
AfterSuccess_KeepsCount(b) ==
    [b EXCEPT !.state = IF b.state = "half_open" THEN "closed" ELSE b.state]

\* the function returned
AfterSuccess(b) ==
    [b EXCEPT !.state = IF b.state = "half_open" THEN "closed" ELSE b.state,
              !.failure_count = 0]

\* `except self.expected_exception`; t is time.time() in the handler
AfterFailure(b, t) ==
    [b EXCEPT !.failure_count = b.failure_count + 1,
              !.last_failure_time = Num(t),
              !.state = IF b.failure_count + 1 >= b.failure_threshold THEN "open"
                        ELSE b.state]

\* what the protected function does when it is called
FuncReturns(value) == [raises |-> "none", value |-> value]
FuncRaises(error_type) == [raises |-> error_type, value |-> ""]

\* what a call of the breaker gives its caller, and the breaker after it
CallOutcome(b, executed, raised, value) ==
    [breaker |-> b, executed |-> executed, raised |-> raised, value |-> value]

\* call with a rejection that is recorded as one more failure
call_CountsRejection(b, does, t0, t1) ==
    IF Blocked(b, t0) THEN CallOutcome(AfterFailure(b, t0), FALSE, "APIError", "")
    ELSE IF does.raises = "none"
         THEN CallOutcome(AfterSuccess(Entered(b, t0)), TRUE, "none", does.value)
    ELSE IF IsExpected(b, does.raises)
         THEN CallOutcome(AfterFailure(Entered(b, t0), t1), TRUE, does.raises, "")
    ELSE CallOutcome(Entered(b, t0), TRUE, does.raises, "")

\* CircuitBreaker.call entered at time t0, the function ending at time t1
call(b, does, t0, t1) ==
    IF Blocked(b, t0) THEN CallOutcome(b, FALSE, "APIError", "")
    ELSE IF does.raises = "none"
         THEN CallOutcome(AfterSuccess(Entered(b, t0)), TRUE, "none", does.value)
    ELSE IF IsExpected(b, does.raises)
         THEN CallOutcome(AfterFailure(Entered(b, t0), t1), TRUE, does.raises, "")
    ELSE CallOutcome(Entered(b, t0), TRUE, does.raises, "")

\* reset that keeps last_failure_time
reset_KeepsTime(b) ==
    [b EXCEPT !.state = "closed", !.failure_count = 0]

\* CircuitBreaker.reset
reset(b) ==
    [b EXCEPT !.state = "closed", !.failure_count = 0, !.last_failure_time = NoneV]

----------------------------------------------------------------------------
(* The retry decorator (core/retry.py).  One run of the wrapper is the     *)
(* record retry_run; the wrapped function returns a value or raises an     *)
(* exception of one of two types at each invocation.                       *)

\* settings.max_retries and settings.retry_delay (config/settings.py)
settings_max_retries == 3
settings_retry_delay == 1

\* backoff, at its default
backoff == 2

\* max_attempts = max_attempts or settings.max_retries
EffectiveAttempts(max_attempts) == Or(max_attempts, Num(settings_max_retries)).n

\* delay = delay or settings.retry_delay
EffectiveDelay(delay) == Or(delay, Num(settings_retry_delay)).n

\* `except exceptions as e` catches e
IsListed(exceptions, error_type) == "Exception" \in exceptions \/ error_type \in exceptions

\* the wrapper at its first attempt
NewRun(max_attempts, delay, exceptions, on_retry) ==
    [max_attempts_arg |-> max_attempts,
     max_attempts |-> EffectiveAttempts(max_attempts),
     exceptions |-> exceptions,
     on_retry |-> on_retry,
     attempt |-> 1,
     current_delay |-> EffectiveDelay(delay),
     last_exception |-> "none",
     invoked |-> << >>,
     on_retry_calls |-> << >>,
     slept |-> 0,
     result |-> NoneV,
     raised |-> "none"]

\* the test without the exception for the last attempt
WillRetry_Always(run) == TRUE

\* attempt < max_attempts
WillRetry(run) == run.attempt < run.max_attempts

\* the wrapper after on_retry, time.sleep and the backoff
BeforeNextAttempt(run) ==
    [run EXCEPT !.on_retry_calls = IF run.on_retry THEN Append(@, run.attempt) ELSE @,
                !.slept = @ + run.current_delay,
                !.current_delay = @ * backoff]

\* the except branch for a listed exception, up to the next iteration
Handled(run, error_type) ==
    [(IF WillRetry(run) THEN BeforeNextAttempt(run) ELSE run)
        EXCEPT !.last_exception = error_type, !.attempt = @ + 1]

\* one iteration of `for attempt in range(1, max_attempts + 1)`
AfterAttempt(run, does) ==
    IF does.raises = "none"
    THEN [run EXCEPT !.invoked = Append(@, does), !.result = Str(does.value)]
    ELSE IF ~IsListed(run.exceptions, does.raises)
    THEN [run EXCEPT !.invoked = Append(@, does), !.raised = does.raises]
    ELSE Handled([run EXCEPT !.invoked = Append(@, does)], does.raises)

\* where the wrapper is after the iteration
PcAfterAttempt(run, does) ==
    IF does.raises = "none" THEN "returned"
    ELSE IF ~IsListed(run.exceptions, does.raises) THEN "raised"
    ELSE "retrying"

\* raise last_exception
AfterLoop(run) == [run EXCEPT !.raised = run.last_exception]

----------------------------------------------------------------------------
(* SimpleCache (core/cache.py).  The dict _cache is a function from the    *)
(* keys to Missing or to the pair of a value and its timestamp; the clock  *)
(* is `now`.                                                               *)

\* settings.cache_ttl (config/settings.py), in seconds
settings_cache_ttl == 3600

CacheKeys == {"a", "b"}

\* SimpleCache.__init__
SimpleCache(ttl) ==
    [entries |-> [key \in CacheKeys |-> Missing],
     ttl |-> Or(ttl, Num(settings_cache_ttl)).n]

\* (value, timestamp)
CacheEntry(value, timestamp) == [t |-> "entry", value |-> value, timestamp |-> timestamp]

\* the test with >= in place of >
Expired_AtTtl(c, entry, t) == c.ttl # 0 /\ (t - entry.timestamp) >= c.ttl

\* self.ttl and (time.time() - timestamp) > self.ttl
Expired(c, entry, t) == c.ttl # 0 /\ (t - entry.timestamp) > c.ttl

\* what get returns, and the cache after it
GetOutcome(c, returned) == [cache |-> c, returned |-> returned]

\* SimpleCache.get at time t
get(c, key, t) ==
    IF c.entries[key] = Missing THEN GetOutcome(c, NoneV)
    ELSE IF Expired(c, c.entries[key], t)
         THEN GetOutcome([c EXCEPT !.entries[key] = Missing], NoneV)
    ELSE GetOutcome(c, c.entries[key].value)

\* SimpleCache.set at time t
set(c, key, value, t) == [c EXCEPT !.entries[key] = CacheEntry(value, t)]

\* SimpleCache.clear
clear(c) == [c EXCEPT !.entries = [key \in CacheKeys |-> Missing]]

\* SimpleCache.has at time t: get(key) is not None
has(c, key, t) == [cache |-> get(c, key, t).cache, returned |-> get(c, key, t).returned # NoneV]

----------------------------------------------------------------------------
(* The components that a specification does not exercise stay idle.        *)

SegmenterIdle == segmenter = NoneV

ServiceIdle == metrics = NewMetrics /\ service_call = NoneV

JsonIdle ==
    /\ invoice_data = NoneV
    /\ filename = NoneV
    /\ json_data = NoneV
    /\ json_valid = "none"

BreakerObjectIdle == breaker = NoneV /\ breaker_log = NoneV

BreakerIdle == BreakerObjectIdle /\ now = 0

CacheIdle == cache = NoneV /\ cache_log = NoneV

RetryIdle == retry_run = NoneV

BatchIdle == batch = NoneV

ClientIdle == client = NoneV

ComponentsIdle ==
    /\ SegmenterIdle /\ ServiceIdle /\ JsonIdle /\ BreakerIdle /\ RetryIdle
    /\ CacheIdle /\ BatchIdle /\ ClientIdle

IdleInSegment ==
    ServiceIdle /\ JsonIdle /\ BreakerIdle /\ RetryIdle /\ CacheIdle /\ BatchIdle /\ ClientIdle
IdleInService ==
    SegmenterIdle /\ JsonIdle /\ BreakerIdle /\ RetryIdle /\ CacheIdle /\ BatchIdle /\ ClientIdle
IdleInJson ==
    SegmenterIdle /\ ServiceIdle /\ BreakerIdle /\ RetryIdle /\ CacheIdle /\ BatchIdle /\ ClientIdle
IdleInBreaker ==
    SegmenterIdle /\ ServiceIdle /\ JsonIdle /\ RetryIdle /\ CacheIdle /\ BatchIdle /\ ClientIdle
IdleInRetry ==
    SegmenterIdle /\ ServiceIdle /\ JsonIdle /\ BreakerIdle /\ CacheIdle /\ BatchIdle /\ ClientIdle
IdleInCache ==
    SegmenterIdle /\ ServiceIdle /\ JsonIdle /\ BreakerObjectIdle /\ RetryIdle /\ BatchIdle /\ ClientIdle
IdleInBatch ==
    SegmenterIdle /\ ServiceIdle /\ JsonIdle /\ BreakerIdle /\ RetryIdle /\ CacheIdle /\ ClientIdle
IdleInClient ==
    /\ SegmenterIdle /\ ServiceIdle /\ JsonIdle /\ BatchIdle
    /\ breaker_log = NoneV /\ cache_log = NoneV

ExtractorsIdle ==
    /\ response = NoResponse
    /\ ocr_text = NoneV
    /\ line_items = << >>
    /\ improved = << >>
    /\ reimproved = << >>
    /\ invoice_num = ""
    /\ valid = "none"
    /\ invoice_total = NoneV
    /\ use_structured_data = FALSE
    /\ ocr_fields = NoneV
    /\ record = NoneV

----------------------------------------------------------------------------
(* Specification SpecImprove: the structured line items of a response are  *)
(* extracted, improved, and improved once more                             *)

MaxFrags == 2
MaxItems == 2

DescFragments ==
    {"Transport ", "(12345)", "(10/2023 Taxes)", "| 971 Gbps Fiber ",
     "to wXv21fam ", " (2023) (X6HCHK1C)"}

NamedDescriptions ==
    {"", "Transport | 971 Gbps Fiber (X6HCHK1C) (10/2023)",
     "Transport | 971 Gbps Fiber (8963157731) (10/2023)",
     "Transport (67890) (10/2023)",
     "Carrier Taxes for Transport (SKU123)",
     "Special Partnership Discount (DISCOUNT123)",
     "Product (ABC123)",
     "Installation (Intra-campus) 14AIFIIqmG",
     "Fiber to ab1cd efghij",
     "Surta(123)xes", "Service a,,,,,b",
     "  Transport (10 Gbps)\nService Credit  "}

RECURSIVE Compositions(_, _)
Compositions(F, n) ==
    IF n = 0 THEN {""} ELSE {s \o f : s \in Compositions(F, n - 1), f \in F}

Descriptions ==
    NamedDescriptions \cup UNION {Compositions(DescFragments, n) : n \in 1..MaxFrags}

\* (sku, upc, quantity, price, tax_rate, total) as the response carries them
ItemFields ==
    { <<Str(""), Missing, Num(2), Num(5), Num(0), Num(10)>>,
      <<Str(""), Missing, Num(2), Num(5), Num(8), Num(-10)>>,
      <<Str(""), Missing, Num(1), Num(-5), Num(0), Num(10)>>,
      <<Str("12345"), Missing, Num(2), Num(5), Num(8), Num(10)>>,
      <<Str("12345"), Missing, NumStr(1), Num(5), Missing, NumStr(-5)>>,
      <<Str(" ABC-123 "), Missing, Num(2), Num(5), Num(8), Num(10)>>,
      <<NoneV, Str("0042"), NoneV, Str("n/a"), NoneV, Num(0)>>,
      <<Missing, Num(77), Missing, Num(0), Num(8), Num(-10)>> }

RawItem(d, f) ==
    [isdict |-> TRUE, sku |-> f[1], upc |-> f[2],
     description |-> IF d = "" THEN Missing ELSE Str(d),
     full_description |-> IF d = "" THEN Str("") ELSE Missing,
     quantity |-> f[3], price |-> f[4], tax_rate |-> f[5], total |-> f[6]]

RawItems == {RawItem(d, f) : d \in Descriptions, f \in ItemFields}

\* a list element that is not a dict
NotADict ==
    [RawItem("x", <<Missing, Missing, Missing, Missing, Missing, Missing>>)
        EXCEPT !.isdict = FALSE]

\* later items of a response: n copies of a fixed regular item
RECURSIVE RegularTail(_)
RegularTail(n) ==
    IF n = 0 THEN << >>
    ELSE <<RawItem("Installation (777)",
                   <<Str(""), Missing, Num(1), Num(3), Num(0), Num(3)>>)>> \o RegularTail(n - 1)

RawItemLists ==
    {<<a>> \o RegularTail(n) : a \in RawItems \cup {NotADict}, n \in 0..(MaxItems - 1)}

ItemsResponse(raw) == [Dict EXCEPT !.line_items = [t |-> "list", items |-> raw]]

InitImprove ==
    /\ pc = "extract"
    /\ ComponentsIdle
    /\ response \in {ItemsResponse(raw) : raw \in RawItemLists}
    /\ line_items = << >>
    /\ improved = << >>
    /\ reimproved = << >>
    /\ invoice_num = ""
    /\ valid = "none"
    /\ ocr_text = NoneV
    /\ invoice_total = NoneV
    /\ use_structured_data = FALSE
    /\ ocr_fields = NoneV
    /\ record = NoneV

ExtractFromStructured ==
    /\ pc = "extract"
    /\ line_items' = extract_from_structured(response)
    /\ pc' = "improve"
    /\ UNCHANGED << component_vars, response, improve_vars, validator_vars, ocr_text, total_vars, hybrid_vars >>

ExtractAndImproveLineItems ==
    /\ pc = "improve"
    /\ improved' = extract_and_improve_line_items(line_items)
    /\ pc' = "improve_again"
    /\ UNCHANGED << component_vars, response, line_items, reimproved, validator_vars, ocr_text, total_vars,
                    hybrid_vars >>

ImproveAgain ==
    /\ pc = "improve_again"
    /\ reimproved' = extract_and_improve_line_items(improved)
    /\ pc' = "done"
    /\ UNCHANGED << component_vars, response, line_items, improved, validator_vars, ocr_text, total_vars,
                    hybrid_vars >>

NextImprove == ExtractFromStructured \/ ExtractAndImproveLineItems \/ ImproveAgain

SpecImprove == InitImprove /\ [][NextImprove]_vars

----------------------------------------------------------------------------
(* Specification SpecValidator: one call of _is_valid_invoice_number       *)

MaxCandLen == 6

CandAlphabet == {"1", "A", "a", "-"}

RECURSIVE StrsOfLen(_, _)
StrsOfLen(A, n) ==
    IF n = 0 THEN {""} ELSE {s \o c : s \in StrsOfLen(A, n - 1), c \in A}

NamedCandidates ==
    {"2024", "01/15/2024", "total", "8963157731", "INV-12345", "inv-12345",
     "SWITCH", "Invoice", "amount", "abcdefg", "12-12-2024-A",
     "12345678901234567890", "123456789012345678901", "INV 12345",
     "ABC123\n", "abc12\n", "1/1/11", "1-1-2024", "A/1234", "1/A/11", "11/11-11A"}

Candidates ==
    NamedCandidates \cup UNION {StrsOfLen(CandAlphabet, n) : n \in 0..MaxCandLen}

InitValidator ==
    /\ pc = "validate"
    /\ ComponentsIdle
    /\ invoice_num \in Candidates
    /\ valid = "none"
    /\ response = NoResponse
    /\ line_items = << >>
    /\ improved = << >>
    /\ reimproved = << >>
    /\ ocr_text = NoneV
    /\ invoice_total = NoneV
    /\ use_structured_data = FALSE
    /\ ocr_fields = NoneV
    /\ record = NoneV

IsValidInvoiceNumber ==
    /\ pc = "validate"
    /\ valid' = _is_valid_invoice_number(invoice_num, invoice_number_exclusions)
    /\ pc' = "validated"
    /\ UNCHANGED << component_vars, invoice_num, response, line_items, improve_vars, ocr_text, total_vars,
                    hybrid_vars >>

NextValidator == IsValidInvoiceNumber

SpecValidator == InitValidator /\ [][NextValidator]_vars

----------------------------------------------------------------------------
(* Specification SpecTotal: one call of _get_invoice_total                 *)

MaxLines == 2

TotalLines ==
    {"Subtotal: $9,000.00", "Total: $10,850.00", "Total: $1500.00",
     "Total: $1234.56", "Sub Total $1,000.00", "TOTAL DUE", "Amount Due 7.00", "Total 0.00",
     "Balance due: $ 1,234.56 USD", "Carrier Taxes $50.00"}

RECURSIVE TextsOfLines(_)
TextsOfLines(n) ==
    IF n = 1 THEN TotalLines
    ELSE {t \o "\n" \o l : t \in TextsOfLines(n - 1), l \in TotalLines}

OcrTexts ==
    {NoneV, Str("")} \cup {Str(t) : t \in UNION {TextsOfLines(n) : n \in 1..MaxLines}}

TotalFields ==
    {Missing, NoneV, Num(0), Num(-500), Num(1085000), NumStr(250000), Str("n/a"),
     Wrap(Num(1085000)), Wrap(NoneV), Wrap(Str("n/a"))}

TotalResponses ==
    {NoResponse, EmptyResponse} \cup {[Dict EXCEPT !.total = v] : v \in TotalFields}

ItemWithTotal(t) ==
    [sku |-> "", description |-> "Transport", quantity |-> 1, price |-> t,
     tax_rate |-> 0, total |-> t]

TotalItemLists ==
    {<< >>, <<ItemWithTotal(90000)>>, <<ItemWithTotal(50000), ItemWithTotal(-50000)>>,
     <<ItemWithTotal(-90000), ItemWithTotal(60000)>>}

InitTotal ==
    /\ pc = "total"
    /\ ComponentsIdle
    /\ response \in TotalResponses
    /\ ocr_text \in OcrTexts
    /\ line_items \in TotalItemLists
    /\ invoice_total = NoneV
    /\ improved = << >>
    /\ reimproved = << >>
    /\ invoice_num = ""
    /\ valid = "none"
    /\ use_structured_data = FALSE
    /\ ocr_fields = NoneV
    /\ record = NoneV

GetInvoiceTotal ==
    /\ pc = "total"
    /\ invoice_total' = _get_invoice_total(response, ocr_text, line_items)
    /\ pc' = "totalled"
    /\ UNCHANGED << component_vars, response, ocr_text, line_items, improve_vars, validator_vars,
                    hybrid_vars >>

NextTotal == GetInvoiceTotal

SpecTotal == InitTotal /\ [][NextTotal]_vars

----------------------------------------------------------------------------
(* Specification SpecHybrid: HybridExtractor.extract_all_fields on an OCR  *)
(* text, a response and a setting of use_structured_data                   *)

MaxTextLines == 2

VendorLines ==
    {"Acme Corp",
     "Please make payments to: switch ltd.",
     "Please make payments to: ab",
     "please make payments promptly",
     "Payments should be made to Globex inc",
     "Invoice 12345 from: fb.com billing",
     "Total Care Inc."}

\* the lines that follow the first line of a text
FurtherLines ==
    {"Acme Corp",
     "Please make payments to: switch ltd.",
     "Please make payments to: ab"}

\* the texts of up to n lines
RECURSIVE TextsOfVendorLines(_)
TextsOfVendorLines(n) ==
    IF n = 1 THEN VendorLines
    ELSE TextsOfVendorLines(n - 1)
         \cup {t \o "\n" \o l : t \in TextsOfVendorLines(n - 1), l \in FurtherLines}

\* the ocr_text argument: absent, empty, or a text of up to MaxTextLines lines
HybridTexts == {NoneV, Str("")} \cup {Str(t) : t \in TextsOfVendorLines(MaxTextLines)}

StructuredItemList ==
    [t |-> "list",
     items |-> << RawItem("Transport (12345)",
                          <<Missing, Missing, Num(2), Num(10), Missing, Num(20)>>) >>]

\* the response argument: absent, an empty dict, or a dict with keys
HybridResponses ==
    {NoResponse, EmptyResponse,
     [Dict EXCEPT !.vendor_name = Wrap(Str("veryfi vendor inc")),
                  !.vendor_address = Str("1 Main St"),
                  !.bill_to_name = Str("Buyer Co"),
                  !.invoice_number = Num(12345),
                  !.date = Str("2024-01-15"),
                  !.ocr_text = Str("Please make payments to: Umbrella Corp"),
                  !.line_items = StructuredItemList],
     [Dict EXCEPT !.vendor_name = Str("  "),
                  !.vendor_raw_name = Str("raw name LLC"),
                  !.vendor_address = Wrap(NoneV),
                  !.vendor_raw_address = Wrap(Str(" 2 Side Rd ")),
                  !.bill_to_name = Wrap(Str("Buyer")),
                  !.invoice_number = Wrap(Str("INV-7")),
                  !.date = Wrap(Str("01/15/2024")),
                  !.line_items = [t |-> "list", items |-> << >>]],
     [Dict EXCEPT !.ocr_text = Str("")],
     [Dict EXCEPT !.vendor_address = Str("4 Low Rd"),
                  !.bill_to_name = Str("   "),
                  !.invoice_number = Num(0),
                  !.date = Str("n/a"),
                  !.ocr_text = NoneV]}

SegmentedItem ==
    [sku |-> "", description |-> "Installation", quantity |-> 1, price |-> 50,
     tax_rate |-> 0, total |-> 50]

\* what the OCR extractors give for a text: each field None or a non-empty
\* str, the line items a list
OcrFields ==
    {[vendor_address |-> NoneV, bill_to_name |-> NoneV, invoice_number |-> NoneV,
      date |-> NoneV, line_items |-> << >>],
     [vendor_address |-> Str("9 Ocr Ave"), bill_to_name |-> Str("Ocr Buyer"),
      invoice_number |-> Str("OCR-001"), date |-> Str("02/03/2024"),
      line_items |-> << SegmentedItem >>],
     [vendor_address |-> Str("9 Ocr Ave"), bill_to_name |-> NoneV,
      invoice_number |-> Str("OCR-001"), date |-> NoneV,
      line_items |-> << SegmentedItem >>]}

InitHybrid ==
    /\ pc = "hybrid"
    /\ ComponentsIdle
    /\ ocr_text \in HybridTexts
    /\ response \in HybridResponses
    /\ use_structured_data \in BOOLEAN
    /\ ocr_fields \in OcrFields
    /\ record = NoneV
    /\ invoice_num = ""
    /\ valid = "none"
    /\ line_items = << >>
    /\ improved = << >>
    /\ reimproved = << >>
    /\ invoice_total = NoneV

ExtractAllFields ==
    /\ pc = "hybrid"
    /\ record' = extract_all_fields(ocr_text, response, use_structured_data, ocr_fields)
    /\ pc' = "extracted"
    /\ UNCHANGED << component_vars, response, ocr_text, use_structured_data, ocr_fields, line_items,
                    improve_vars, validator_vars, total_vars >>

NextHybrid == ExtractAllFields

SpecHybrid == InitHybrid /\ [][NextHybrid]_vars

----------------------------------------------------------------------------
(* Specification SpecSegment: LineItemExtractor.extract_from_ocr on an OCR *)
(* text, one step per line of the parse loop                               *)

MaxSegLines == 3

\* the first line of a text
SegFirstLines ==
    {"Description Qty Price Total",
     "Widget 2 10.00 20.00",
     "SKU: AB-12 Cable 3 $4.00 $12.00",
     "Tax preparation 1 50.00 50.00",
     "12 Installation Of Carrier Transport (XR-500) 0.00",
     "Early payment discount 5.00",
     "5.00 7.00"}

\* the lines after the first
SegLines ==
    {"Widget 2 10.00 20.00",
     "",
     "Premium total care $5.00",
     "Total: $70.00",
     "Invoice Total 70.00",
     "8.25% monthly fee",
     "2 Transport Service 1.50 credit"}

RECURSIVE SegTextsFrom(_, _)
SegTextsFrom(texts, n) ==
    IF n <= 1 THEN texts
    ELSE texts \cup SegTextsFrom({t \o "\n" \o l : t \in texts, l \in SegLines}, n - 1)

SegTexts == SegTextsFrom(SegFirstLines, MaxSegLines)

\* lines = ocr_text.split('\n')
ocr_lines == SplitLines(ocr_text.s)

InitSegment ==
    /\ pc = "find_section"
    /\ ocr_text \in {Str(t) : t \in SegTexts}
    /\ segmenter = NoneV
    /\ IdleInSegment
    /\ line_items = << >>
    /\ response = NoResponse
    /\ improved = << >>
    /\ reimproved = << >>
    /\ invoice_num = ""
    /\ valid = "none"
    /\ invoice_total = NoneV
    /\ use_structured_data = FALSE
    /\ ocr_fields = NoneV
    /\ record = NoneV

\* the scan for the header of the item table
FindItemSection ==
    /\ pc = "find_section"
    /\ segmenter' = [i |-> item_section_start(ocr_lines),
                     current_item |-> EmptyItem, line_items |-> << >>,
                     current_start |-> 0, starts |-> << >>, returned_from |-> << >>]
    /\ pc' = IF item_section_start(ocr_lines) > Len(ocr_lines) THEN "add_last" ELSE "parse_line"
    /\ UNCHANGED << ocr_text, line_items, response, improve_vars, validator_vars,
                    total_vars, hybrid_vars, idle_in_segment >>

\* Beside the locals of the loop the segmenter records where each item
\* began: current_start is the line at which current_item received its first
\* key (0 while it is empty), starts the same for each item of line_items.

\* the line at which the current item began, st the state after line k
CurrentStartAfter(st, k) ==
    IF st.current_item = EmptyItem THEN 0
    ELSE IF Len(st.line_items) > Len(segmenter.line_items) \/ segmenter.current_start = 0
    THEN k
    ELSE segmenter.current_start

\* the lines at which the saved items began
StartsAfter(st) ==
    IF Len(st.line_items) > Len(segmenter.line_items)
    THEN Append(segmenter.starts, segmenter.current_start)
    ELSE segmenter.starts

\* the state of the loop after the step st for line k, the next line being i
LoopState(i, st, k) ==
    [i |-> i, current_item |-> st.current_item, line_items |-> st.line_items,
     current_start |-> CurrentStartAfter(st, k), starts |-> StartsAfter(st),
     returned_from |-> << >>]

\* the state of the loop when it is left at a totals line: the item that
\* was saved stays the current one
BreakState(st) ==
    [i |-> segmenter.i, current_item |-> st.current_item, line_items |-> st.line_items,
     current_start |-> IF st.current_item = EmptyItem THEN 0 ELSE segmenter.current_start,
     starts |-> StartsAfter(st), returned_from |-> << >>]

\* the lines at which the items that the clean-up pass keeps began
RECURSIVE KeptStartsFrom(_, _, _)
KeptStartsFrom(items, starts, k) ==
    IF k > Len(items) THEN << >>
    ELSE (IF IsKept(CleanedItem(items[k])) THEN << starts[k] >> ELSE << >>)
         \o KeptStartsFrom(items, starts, k + 1)

\* one iteration of `for i in range(item_section_start, len(lines))`: a
\* totals line breaks out of the loop and leaves i where it is
ParseNextLine ==
    /\ pc = "parse_line"
    /\ IF Strip(ocr_lines[segmenter.i]) # "" /\ is_totals_section(Strip(ocr_lines[segmenter.i]))
       THEN /\ segmenter' =
                 BreakState(
                     AfterTotalsLine(
                         AfterNewItemCheck(segmenter.current_item, segmenter.line_items,
                                           Strip(ocr_lines[segmenter.i]))))
            /\ pc' = "add_last"
       ELSE /\ segmenter' =
                 LoopState(segmenter.i + 1, ParseLine(segmenter, Strip(ocr_lines[segmenter.i])),
                           segmenter.i)
            /\ pc' = IF segmenter.i + 1 > Len(ocr_lines) THEN "add_last" ELSE "parse_line"
    /\ UNCHANGED << ocr_text, line_items, response, improve_vars, validator_vars,
                    total_vars, hybrid_vars, idle_in_segment >>

\* the last item is added and the items are cleaned up and returned
CleanUpItems ==
    /\ pc = "add_last"
    /\ line_items' = cleaned_items(WithLastItem(segmenter))
    /\ segmenter' =
           [segmenter EXCEPT !.returned_from =
                KeptStartsFrom(WithLastItem(segmenter),
                               IF Len(WithLastItem(segmenter)) > Len(segmenter.line_items)
                               THEN Append(segmenter.starts, segmenter.current_start)
                               ELSE segmenter.starts, 1)]
    /\ pc' = "segmented"
    /\ UNCHANGED << ocr_text, response, improve_vars, validator_vars,
                    total_vars, hybrid_vars, idle_in_segment >>

NextSegment == FindItemSection \/ ParseNextLine \/ CleanUpItems

SpecSegment == InitSegment /\ [][NextSegment]_vars

----------------------------------------------------------------------------
(* Specification SpecService: calls of InvoiceService.process_invoice on   *)
(* one service, with the global MetricsCollector                           *)

MaxCalls == 3

ServiceTexts == {NoneV, Str(""), Str("Invoice INV-1 Total: $5.00")}

ServiceResponses ==
    {NoResponse, EmptyResponse,
     [Dict EXCEPT !.total = Num(500)],
     [Dict EXCEPT !.ocr_text = Str("Invoice INV-1 Total: $5.00")],
     [Dict EXCEPT !.ocr_text = NoneV]}

InitService ==
    /\ pc = "service"
    /\ metrics = NewMetrics
    /\ service_call = NoneV
    /\ IdleInService
    /\ ExtractorsIdle

\* the call and what came of it
CallRecord(resp, text, does, out) ==
    [response |-> resp, ocr_text |-> text, does |-> does,
     invoked |-> out.invoked, result |-> out.result]

\* one call of process_invoice; the filename only travels to the extractor's
\* record and to the generator
ProcessInvoice ==
    /\ pc \in {"service", "served"}
    /\ metrics.timings < MaxCalls
    /\ \E resp \in ServiceResponses, text \in ServiceTexts, does \in Behaviours :
           /\ metrics' = process_invoice(resp, text, does, metrics).metrics
           /\ service_call' =
                  CallRecord(resp, text, does, process_invoice(resp, text, does, metrics))
    /\ pc' = "served"
    /\ UNCHANGED << response, ocr_text, line_items, improve_vars, validator_vars,
                    total_vars, hybrid_vars, idle_in_service >>

NextService == ProcessInvoice

SpecService == InitService /\ [][NextService]_vars

----------------------------------------------------------------------------
(* Specification SpecJson: process_invoice hands the extracted record and  *)
(* the filename to generate_json and the result to validate                *)

MaxJsonItems == 2

\* values of a scalar field of the record
ScalarValues == {Missing, NoneV, Str(""), Str("  Acme Corp "), Num(42)}

\* the five scalar fields: vendor_name takes every value, the others follow
ScalarProfiles ==
    {<<v, NoneV, Str("Bill Co"), Num(1001), Missing>> : v \in ScalarValues}
    \cup {<<Str("Acme"), Str("1 Main St"), Missing, NoneV, Str(" 01/15/2024")>>}

\* items of line_items: one that is not a dict, and dicts whose fields are
\* absent, None, unparseable, numerals or numbers
JsonItem(isdict, f) ==
    [isdict |-> isdict, sku |-> f[1], description |-> f[2], quantity |-> f[3],
     price |-> f[4], tax_rate |-> f[5], total |-> f[6]]

JsonItems ==
    {JsonItem(FALSE, <<Missing, Missing, Missing, Missing, Missing, Missing>>),
     JsonItem(TRUE, <<Missing, Missing, Missing, Missing, Missing, Missing>>),
     JsonItem(TRUE, <<NoneV, Str(" Widget "), NoneV, Str("n/a"), Wrap(Num(8)), NumStr(1050)>>),
     JsonItem(TRUE, <<Num(12345), NoneV, Num(2), Num(-5), Str(""), Num(-10)>>)}

RECURSIVE JsonItemLists(_)
JsonItemLists(n) ==
    IF n = 0 THEN {<< >>}
    ELSE JsonItemLists(n - 1)
         \cup {Append(l, a) : l \in JsonItemLists(n - 1), a \in JsonItems}

\* the values of invoice_data['line_items']: absent, None, a str, a list
LineItemsValues ==
    {[t |-> "missing", items |-> << >>], [t |-> "none", items |-> << >>],
     [t |-> "str", items |-> << >>]}
    \cup {[t |-> "list", items |-> l] : l \in JsonItemLists(MaxJsonItems)}

InvoiceData(p, items) ==
    [vendor_name |-> p[1], vendor_address |-> p[2], bill_to_name |-> p[3],
     invoice_number |-> p[4], date |-> p[5], line_items |-> items,
     _source_file |-> Missing]

Filenames == {NoneV, Str(""), Str("invoice_1.pdf")}

InitJson ==
    /\ pc = "extracted_record"
    /\ invoice_data \in {InvoiceData(p, items) : p \in ScalarProfiles, items \in LineItemsValues}
    /\ filename \in Filenames
    /\ json_data = NoneV
    /\ json_valid = "none"
    /\ IdleInJson
    /\ ExtractorsIdle

\* invoice_service.py lines 90-94
GenerateJson ==
    /\ pc = "extracted_record"
    /\ invoice_data' = WithSourceFile(invoice_data, filename)
    /\ json_data' = generate_json(WithSourceFile(invoice_data, filename), filename)
    /\ pc' = "generated"
    /\ UNCHANGED << filename, json_valid, extractor_vars, idle_in_json >>

\* invoice_service.py line 97
ValidateJson ==
    /\ pc = "generated"
    /\ json_valid' = IF validate(json_data) THEN "valid" ELSE "invalid"
    /\ pc' = "validated"
    /\ UNCHANGED << invoice_data, filename, json_data, extractor_vars, idle_in_json >>

NextJson == GenerateJson \/ ValidateJson

SpecJson == InitJson /\ [][NextJson]_vars

----------------------------------------------------------------------------
(* Specification SpecBreaker: calls and resets of one CircuitBreaker while *)
(* the clock advances                                                      *)

MaxThreshold == 2
MaxTime == 4
MaxBreakerCalls == 5

RecoveryTimeouts == {0, 1, 2}
ExpectedExceptions == {"Exception", "ValueError"}
FuncBehaviours == {FuncReturns("success"), FuncRaises("ValueError"), FuncRaises("KeyError")}

\* the last operation on the breaker and what its caller saw, with the
\* number of calls made, of calls in which the function raised since it last
\* returned (or the breaker was reset), and of those that raised an expected
\* exception
BreakerLog(op, before, at, out, calls, failures, expected_failures) ==
    [op |-> op, before |-> before, at |-> at, executed |-> out.executed,
     raised |-> out.raised, value |-> out.value, does |-> out.does,
     calls |-> calls, failures |-> failures, expected_failures |-> expected_failures]

NoOutcome == [executed |-> FALSE, raised |-> "none", value |-> "", does |-> NoneV]

InitBreaker ==
    /\ pc = "breaker"
    /\ breaker \in {NewBreaker(n, s, e) : n \in 1..MaxThreshold, s \in RecoveryTimeouts,
                                          e \in ExpectedExceptions}
    /\ now = 0
    /\ breaker_log = BreakerLog("init", breaker, 0, NoOutcome, 0, 0, 0)
    /\ IdleInBreaker
    /\ ExtractorsIdle

\* the counts after a call
FailuresAfter(out, does, n) ==
    IF ~out.executed THEN n ELSE IF does.raises = "none" THEN 0 ELSE n + 1

ExpectedFailuresAfter(out, does, n) ==
    IF ~out.executed THEN n
    ELSE IF does.raises = "none" THEN 0
    ELSE IF IsExpected(breaker, does.raises) THEN n + 1 ELSE n

\* breaker.call(func); the function takes 0 or 1 second
BreakerCall ==
    /\ pc = "breaker"
    /\ breaker_log.calls < MaxBreakerCalls
    /\ \E does \in FuncBehaviours, d \in {0, 1} :
           /\ now + d <= MaxTime
           /\ breaker' = call(breaker, does, now, now + d).breaker
           /\ now' = IF Blocked(breaker, now) THEN now ELSE now + d
           /\ breaker_log' =
                  BreakerLog("call", breaker, now,
                             [executed |-> call(breaker, does, now, now + d).executed,
                              raised |-> call(breaker, does, now, now + d).raised,
                              value |-> call(breaker, does, now, now + d).value,
                              does |-> does],
                             breaker_log.calls + 1,
                             FailuresAfter(call(breaker, does, now, now + d), does,
                                           breaker_log.failures),
                             ExpectedFailuresAfter(call(breaker, does, now, now + d), does,
                                                   breaker_log.expected_failures))
    /\ UNCHANGED << pc, extractor_vars, idle_in_breaker >>

\* breaker.reset()
BreakerReset ==
    /\ pc = "breaker"
    /\ breaker' = reset(breaker)
    /\ breaker_log' = BreakerLog("reset", breaker, now, NoOutcome, breaker_log.calls, 0, 0)
    /\ UNCHANGED << pc, now, extractor_vars, idle_in_breaker >>

\* a second passes between two operations
Tick ==
    /\ pc = "breaker"
    /\ now < MaxTime
    /\ now' = now + 1
    /\ UNCHANGED << pc, breaker, breaker_log, extractor_vars, idle_in_breaker >>

NextBreaker == BreakerCall \/ BreakerReset \/ Tick

SpecBreaker == InitBreaker /\ [][NextBreaker]_vars

----------------------------------------------------------------------------
(* Specification SpecRetry: one call of a function wrapped by retry;       *)
(* SpecRetryLive adds that the wrapper's thread keeps running              *)

MaxAttempts == 3

MaxAttemptsArgs == {NoneV, Num(0)} \cup {Num(n) : n \in 1..MaxAttempts}
DelayArgs == {NoneV, Num(2)}
ExceptionsArgs == {{"Exception"}, {"ValueError"}}

InitRetry ==
    /\ pc = "retrying"
    /\ retry_run \in {NewRun(n, d, e, c) : n \in MaxAttemptsArgs, d \in DelayArgs,
                                           e \in ExceptionsArgs, c \in BOOLEAN}
    /\ IdleInRetry
    /\ ExtractorsIdle

\* retry.py lines 44-64
Attempt ==
    /\ pc = "retrying"
    /\ retry_run.attempt <= retry_run.max_attempts
    /\ \E does \in FuncBehaviours :
           /\ retry_run' = AfterAttempt(retry_run, does)
           /\ pc' = PcAfterAttempt(retry_run, does)
    /\ UNCHANGED << extractor_vars, idle_in_retry >>

\* retry.py line 67
RaiseLast ==
    /\ pc = "retrying"
    /\ retry_run.attempt > retry_run.max_attempts
    /\ retry_run' = AfterLoop(retry_run)
    /\ pc' = "raised"
    /\ UNCHANGED << extractor_vars, idle_in_retry >>

NextRetry == Attempt \/ RaiseLast

SpecRetry == InitRetry /\ [][NextRetry]_vars

\* the wrapped function and time.sleep return, so the loop goes on
SpecRetryLive == SpecRetry /\ WF_vars(NextRetry)

----------------------------------------------------------------------------
(* Specification SpecCache: operations on one SimpleCache while the clock  *)
(* advances                                                                *)

MaxCacheTime == 4

TtlArgs == {NoneV, Num(0), Num(1), Num(2)}
CacheValues == {Str("v1"), Str("v2")}

\* the argument the cache was constructed with, the last operation and what
\* it returned, and what was last written under each key since the cache was
\* created or cleared
CacheLog(ttl_arg, op, key, returned, at, written) ==
    [ttl_arg |-> ttl_arg, op |-> op, key |-> key, returned |-> returned, at |-> at,
     written |-> written]

InitCache ==
    /\ pc = "cache"
    /\ \E ttl \in TtlArgs :
           /\ cache = SimpleCache(ttl)
           /\ cache_log = CacheLog(ttl, "init", "", NoneV, 0, [key \in CacheKeys |-> Missing])
    /\ now = 0
    /\ IdleInCache
    /\ ExtractorsIdle

CacheSet ==
    /\ pc = "cache"
    /\ \E key \in CacheKeys, value \in CacheValues :
           /\ cache' = set(cache, key, value, now)
           /\ cache_log' = CacheLog(cache_log.ttl_arg, "set", key, NoneV, now,
                                    [cache_log.written EXCEPT ![key] = CacheEntry(value, now)])
    /\ UNCHANGED << pc, now, extractor_vars, idle_in_cache >>

CacheGet ==
    /\ pc = "cache"
    /\ \E key \in CacheKeys :
           /\ cache' = get(cache, key, now).cache
           /\ cache_log' = CacheLog(cache_log.ttl_arg, "get", key, get(cache, key, now).returned, now,
                                    cache_log.written)
    /\ UNCHANGED << pc, now, extractor_vars, idle_in_cache >>

CacheHas ==
    /\ pc = "cache"
    /\ \E key \in CacheKeys :
           /\ cache' = has(cache, key, now).cache
           /\ cache_log' = CacheLog(cache_log.ttl_arg, "has", key, has(cache, key, now).returned, now,
                                    cache_log.written)
    /\ UNCHANGED << pc, now, extractor_vars, idle_in_cache >>

CacheClear ==
    /\ pc = "cache"
    /\ cache' = clear(cache)
    /\ cache_log' = CacheLog(cache_log.ttl_arg, "clear", "", NoneV, now, [key \in CacheKeys |-> Missing])
    /\ UNCHANGED << pc, now, extractor_vars, idle_in_cache >>

\* a second passes between two operations
CacheTick ==
    /\ pc = "cache"
    /\ now < MaxCacheTime
    /\ now' = now + 1
    /\ UNCHANGED << pc, cache, cache_log, extractor_vars, idle_in_cache >>

\* a pause longer than settings.cache_ttl
LongPause == settings_cache_ttl + 1

\* the cache is left alone for a long time
CacheSleep ==
    /\ pc = "cache"
    /\ now <= MaxCacheTime
    /\ now' = now + LongPause
    /\ UNCHANGED << pc, cache, cache_log, extractor_vars, idle_in_cache >>

NextCache == CacheSet \/ CacheGet \/ CacheHas \/ CacheClear \/ CacheTick \/ CacheSleep

SpecCache == InitCache /\ [][NextCache]_vars

----------------------------------------------------------------------------
(* Claims about the line item improver                                     *)

Improved == pc \in {"improve_again", "done"}

SameSign(item) ==
    \/ item.price >= 0 /\ item.total >= 0
    \/ item.price <= 0 /\ item.total <= 0

TaxOrDiscount(item) == _is_tax_line_item(item) \/ _is_discount_line_item(item)

\* C2: every line item that extract_from_structured followed by
\* extract_and_improve_line_items emits has price and total of the same sign
\* (both >= 0 or both <= 0).
C2_PriceAndTotalShareSign ==
    Improved => \A k \in 1..Len(improved) : SameSign(improved[k])

C4_Idempotent ==
    pc = "done" => reimproved = improved

\* C5: every sku of the improved items is empty or made of digits only.
C5_SkuEmptyOrDigits ==
    Improved =>
        \A k \in 1..Len(improved) :
            improved[k].sku = "" \/ IsDigitStr(improved[k].sku)

----------------------------------------------------------------------------
(* Claims about _get_invoice_total                                         *)

\* the last number written on a line (digits with ',' and '.' inside), ''
\* when the line has none
RECURSIVE LastNumberFrom(_, _, _)
LastNumberFrom(line, i, last) ==
    IF i > Len(line) THEN last
    ELSE IF Ch(line, i) \in DigitCh
    THEN LastNumberFrom(
             line, RunEnd(line, i, DigitCh \cup {",", "."}, Len(line)),
             SubSeq(line, i, RunEnd(line, i, DigitCh \cup {",", "."}, Len(line)) - 1))
    ELSE LastNumberFrom(line, i + 1, last)

\* the amount of a line that names a total and not a subtotal, 0 otherwise
StatedLineTotal(line) ==
    IF Contains(Lower(line), "subtotal") THEN 0
    ELSE IF ~ContainsAny(Lower(line), total_keywords) THEN 0
    ELSE IF LastNumberFrom(line, 1, "") = "" THEN 0
    ELSE CentsOf(LastNumberFrom(line, 1, ""))

RECURSIVE StatedTotalFromLines(_, _)
StatedTotalFromLines(lines, k) ==
    IF k > Len(lines) THEN NoneV
    ELSE IF StatedLineTotal(lines[k]) > 0 THEN Num(StatedLineTotal(lines[k]))
    ELSE StatedTotalFromLines(lines, k + 1)

StatedOcrTotal(text) ==
    IF ~Truthy(text) THEN NoneV ELSE StatedTotalFromLines(SplitLines(text.s), 1)

\* C9: the invoice total is the response's total (unwrapped) when it is a
\* positive number; else the amount written on the first OCR line that has
\* a total keyword, no 'subtotal' and an amount; else the absolute value of
\* the sum of the line item totals; and None only when all three fail.
C9_StrictPriority ==
    pc = "totalled" =>
        invoice_total =
            FirstNotNone(
                _get_invoice_total_from_response(response),
                FirstNotNone(
                    StatedOcrTotal(ocr_text),
                    _calculate_invoice_total_from_line_items(line_items)))

----------------------------------------------------------------------------
(* Claims about _is_valid_invoice_number                                   *)

InLengthWindow(s) == 6 <= Len(s) /\ Len(s) <= 20
Excluded(s) == Strip(Lower(s)) \in invoice_number_exclusions
AllLowercaseAlpha(s) == Len(s) > 0 /\ AllIn(s, LowerCh)
FourDigitYear(s) ==
    Len(s) = 4 /\ AllIn(s, DigitCh) /\ IntOf(s) >= 1900 /\ IntOf(s) <= 2100
OnlyChars(s, C) == Len(s) > 0 /\ AllIn(s, C)
DropFinalNewline(s) ==
    IF Len(s) > 0 /\ Ch(s, Len(s)) = "\n" THEN SubSeq(s, 1, Len(s) - 1) ELSE s

\* C10 as stated: a candidate is accepted iff its length is 6..20, it is not
\* an exclusion word, not all-lowercase alphabetic, not date-shaped, not a
\* 4-digit year in [1900,2100], and it is all digits or made only of the
\* characters A-Z, 0-9 and '-'.
C10_AsStated ==
    pc = "validated" =>
        (valid <=>
            /\ InLengthWindow(invoice_num)
            /\ ~Excluded(invoice_num)
            /\ ~AllLowercaseAlpha(invoice_num)
            /\ ~DateShapedPrefix(invoice_num)
            /\ ~FourDigitYear(invoice_num)
            /\ \/ OnlyChars(invoice_num, DigitCh)
               \/ OnlyChars(invoice_num, UpperCh \cup DigitCh \cup {"-"}))

\* C10 amended: the same equivalence with the last condition read without
\* regard to letter case (letters of either case, digits and '-', one final
\* newline being tolerated); '2024', '01/15/2024' and 'total' are rejected,
\* '8963157731' and 'INV-12345' are accepted.
C10_ValidIffCaseInsensitive ==
    pc = "validated" =>
        /\ valid <=>
            /\ InLengthWindow(invoice_num)
            /\ ~Excluded(invoice_num)
            /\ ~AllLowercaseAlpha(invoice_num)
            /\ ~DateShapedPrefix(invoice_num)
            /\ ~FourDigitYear(invoice_num)
            /\ \/ OnlyChars(invoice_num, DigitCh)
               \/ OnlyChars(DropFinalNewline(invoice_num), AlnumCh \cup {"-"})
        /\ invoice_num \in {"2024", "01/15/2024", "total"} => ~valid
        /\ invoice_num \in {"8963157731", "INV-12345"} => valid

C10_Witness ==
    pc = "validated" /\ invoice_num = "inv-12345" /\ valid = TRUE

----------------------------------------------------------------------------
(* Claims about HybridExtractor.extract_all_fields (SpecHybrid)            *)

Extracted == pc = "extracted"

\* the OCR text the extractors read
ResolvedText == ResolveOcrText(ocr_text, response)

\* the structured extractor's value of a field: None when the extractor is
\* not run
StructuredValue(f) ==
    IF ~(TruthyResponse(response) /\ use_structured_data) THEN NoneV
    ELSE CASE f = "vendor_name" -> StructuredExtractor_extract_vendor_name(response)
           [] f = "vendor_address" -> StructuredExtractor_extract_vendor_address(response)
           [] f = "bill_to_name" -> StructuredExtractor_extract_bill_to_name(response)
           [] f = "invoice_number" -> StructuredExtractor_extract_invoice_number(response)
           [] f = "date" -> StructuredExtractor_extract_date(response)

\* the OCR extractor's value of a field: None when there is no text
OcrValue(f) ==
    IF ~Truthy(ResolvedText) THEN NoneV
    ELSE IF f = "vendor_name"
    THEN StrOrNone(OCRExtractor_extract_vendor_name(ResolvedText.s))
    ELSE ocr_fields[f]

ScalarFields == {"vendor_name", "vendor_address", "bill_to_name", "invoice_number", "date"}
CombinedFields == {"vendor_address", "bill_to_name", "invoice_number", "date"}

\* C1: the record returned by extract_all_fields has no null field: a field
\* whose extraction fails is the empty string, never None.
C1_NoFieldIsNull ==
    Extracted => \A f \in ScalarFields : record[f] # NoneV

\* the text holds the phrase "please make payments to"
PaymentsToPhrase(text) ==
    FirstPhraseEnd(text, {payment_patterns[1]}) > 0

\* the cleaned name that the payments-to match captures
PaymentsToName(text) ==
    _clean_vendor_name(
        SubTrailingPunct(CaptureAfter(text, FirstPhraseEnd(text, {payment_patterns[1]}))))

\* C6: whenever the OCR text holds a "please make payments to" phrase the
\* record's vendor_name is the cleaned name captured by that match, whatever
\* the structured vendor name and the flag; when the phrase is absent the
\* vendor_name is the structured name, or else the OCR name.
C6_PaymentsToOverride ==
    Extracted =>
        IF Truthy(ResolvedText) /\ PaymentsToPhrase(ResolvedText.s)
        THEN record.vendor_name = Str(PaymentsToName(ResolvedText.s))
        ELSE record.vendor_name = Or(StructuredValue("vendor_name"), OcrValue("vendor_name"))

\* C7: for vendor_address, bill_to_name, invoice_number and date the record
\* carries the structured value whenever that value is non-empty, and
\* otherwise the OCR value.
C7_StructuredPreferred ==
    Extracted =>
        \A f \in CombinedFields :
            record[f] = IF Truthy(StructuredValue(f)) THEN StructuredValue(f)
                        ELSE OcrValue(f)

\* a call where the structured and the OCR extractor both give an address
\* and the record carries the structured one
C7_Witness ==
    /\ Extracted
    /\ Truthy(StructuredValue("vendor_address"))
    /\ Truthy(OcrValue("vendor_address"))
    /\ StructuredValue("vendor_address") # OcrValue("vendor_address")
    /\ record.vendor_address = StructuredValue("vendor_address")
    /\ ~Truthy(StructuredValue("bill_to_name"))
    /\ Truthy(OcrValue("bill_to_name"))
    /\ record.bill_to_name = OcrValue("bill_to_name")

\* C8: when a structured response exists with use_structured_data on, it
\* yields no line items and OCR text is present, the line_items of the record
\* are the improved OCR-segmented items.
C8_OcrFallbackForLineItems ==
    ( /\ Extracted
      /\ TruthyResponse(response) /\ use_structured_data
      /\ extract_from_structured(response) = << >>
      /\ Truthy(ResolvedText) )
    => record.line_items = extract_and_improve_line_items(ocr_fields.line_items)

----------------------------------------------------------------------------
(* Claims about LineItemExtractor.extract_from_ocr (SpecSegment)           *)

\* the parse loop was left by `break` at line segmenter.i
StoppedAtLine ==
    /\ pc \in {"add_last", "segmented"}
    /\ segmenter.i <= Len(ocr_lines)

\* the line starts with a totals keyword, or with one after an
\* invoice/bill/statement prefix
StartsWithTotalsKeyword(line_lower) ==
    \E indicator \in totals_indicators :
        \/ At(line_lower, 1, indicator)
        \/ \E prefix \in {"invoice", "bill", "statement"} :
               AfterPrefix(line_lower, prefix, indicator)

\* C11: segmentation stops only at a line that starts with a totals keyword
\* (optionally after an invoice/bill/statement prefix) and contains one of
\* ':', '=', '$'; a line that merely contains or begins with such a word in
\* its description does not end parsing.
C11_StopsOnlyAtTotalsHeader ==
    StoppedAtLine =>
        /\ StartsWithTotalsKeyword(Lower(Strip(ocr_lines[segmenter.i])))
        /\ ContainsAny(Lower(Strip(ocr_lines[segmenter.i])), {":", "=", "$"})

----------------------------------------------------------------------------
(* Claims about InvoiceService.process_invoice (SpecService)               *)

\* the call just made had a non-empty ocr_text that the format validator
\* rejected
RejectedByFormat(made) ==
    Truthy(made.ocr_text) /\ made.does.is_valid_invoice_format = "invalid"

\* C12: given non-empty OCR text that fails the format validator,
\* process_invoice returns a failure Result whose error contains 'does not
\* match expected invoice format', invokes neither the extractor nor the
\* JSON generator, records an 'invalid_format' error in the metrics and does
\* not increment 'invoices_processed'.
C12_InvalidFormatRejected ==
    [][ (pc' = "served" /\ RejectedByFormat(service_call')) =>
            /\ ~service_call'.result.success
            /\ Contains(service_call'.result.error, "does not match expected invoice format")
            /\ service_call'.invoked \cap {"extract_all_fields", "generate_json"} = {}
            /\ metrics'.errors["invoice_processing:invalid_format"]
                   = metrics.errors["invoice_processing:invalid_format"] + 1
            /\ metrics'.counters["invoices_processed"] = metrics.counters["invoices_processed"]
      ]_vars

C12_Witness ==
    /\ pc = "served"
    /\ RejectedByFormat(service_call)
    /\ metrics.errors["invoice_processing:invalid_format"] = 1
    /\ metrics.counters["invoices_processed"] = 1

\* a component that was called raised an exception
Raised(made) == \E component \in made.invoked : made.does[component] = "raise"

\* C13: process_invoice always returns a Result; when the validator, the
\* extractor or the JSON generator raises, the Result is a failure; every
\* failure Result comes with exactly one recorded error and no increment of
\* 'invoices_processed', every success Result with exactly one increment
\* and no recorded error.
C13_OneRecordPerResult ==
    [][ pc' = "served" =>
            /\ service_call'.result.success \in BOOLEAN
            /\ Raised(service_call') => ~service_call'.result.success
            /\ IF service_call'.result.success
               THEN /\ metrics'.counters["invoices_processed"]
                           = metrics.counters["invoices_processed"] + 1
                    /\ get_error_count(metrics') = get_error_count(metrics)
                    /\ metrics'.errors = metrics.errors
               ELSE /\ metrics'.counters["invoices_processed"]
                           = metrics.counters["invoices_processed"]
                    /\ get_error_count(metrics') = get_error_count(metrics) + 1
                    /\ metrics'.counters["invoice_processing_errors"]
                           = metrics.counters["invoice_processing_errors"] + 1
      ]_vars

C13_Witness ==
    /\ pc = "served"
    /\ Raised(service_call)
    /\ "generate_json" \in service_call.invoked
    /\ metrics.counters["invoices_processed"] = 1
    /\ get_error_count(metrics) = 2

----------------------------------------------------------------------------
(* Claims about JSONGenerator.generate_json (SpecJson)                     *)

Generated == pc \in {"generated", "validated"}

ScalarKeys == {"vendor_name", "vendor_address", "bill_to_name", "invoice_number", "date"}

\* the field of the input record as dict.get reads it
InputIsNone(key) == invoice_data[key].t \in {"missing", "none"}

C15_ExactlySixKeys ==
    Generated =>
        /\ DOMAIN json_data = required_fields
        /\ \A k \in 1..Len(json_data["line_items"]) :
               DOMAIN json_data["line_items"][k] = required_line_item_fields

----------------------------------------------------------------------------
(* Claims about CircuitBreaker (SpecBreaker)                               *)

\* the last operation was a call in which the function ran and raised
FuncRaised == breaker_log.op = "call" /\ breaker_log.executed /\ breaker_log.raised # "none"

\* the last operation was a call in which the function ran and returned
FuncReturned == breaker_log.op = "call" /\ breaker_log.executed /\ breaker_log.raised = "none"

\* the parts of the statement that do not depend on which failures count
ClosedUntilThreshold(failures) ==
    /\ breaker.failure_count = failures
    /\ breaker.state = "closed" => failures < breaker.failure_threshold
    /\ (FuncRaised /\ breaker_log.before.state = "closed") =>
           (breaker.state = "open" <=> failures >= breaker.failure_threshold)
    /\ FuncReturned => breaker.failure_count = 0
    /\ FuncRaised => breaker_log.raised = breaker_log.does.raises

\* C16 (as stated): a breaker that starts closed stays closed while fewer
\* than failure_threshold consecutive failing calls have occurred,
\* failure_count being the number of failures since the last success, opens
\* on the call at which that number reaches the threshold, a success resets
\* failure_count to 0, and every failing call re-raises the exception.
C16_AsStated == ClosedUntilThreshold(breaker_log.failures)

\* C16 (amended): the same, the failures counted being the calls in which
\* the function raised an exception of the type expected_exception; a call
\* raising another type re-raises it and leaves failure_count and state as
\* they are.
C16_ExpectedFailuresOpen ==
    /\ ClosedUntilThreshold(breaker_log.expected_failures)
    /\ (FuncRaised /\ ~IsExpected(breaker, breaker_log.raised)) =>
           /\ breaker.failure_count = breaker_log.before.failure_count
           /\ breaker_log.before.state = "closed" => breaker.state = "closed"

\* a success lay between the failures that opened the circuit
C16_Witness ==
    /\ FuncRaised
    /\ breaker_log.before.state = "closed"
    /\ breaker.state = "open"
    /\ breaker.failure_threshold = 2
    /\ breaker.failure_count = 2
    /\ breaker_log.calls > 2

\* the last call met an open circuit at most recovery_timeout seconds after
\* the last failure
MetOpenBeforeTimeout ==
    /\ breaker_log.op = "call"
    /\ breaker_log.before.state = "open"
    /\ breaker_log.before.last_failure_time.t = "num"
    /\ breaker_log.at - breaker_log.before.last_failure_time.n
           <= breaker_log.before.recovery_timeout

MetOpenAfterTimeout ==
    /\ breaker_log.op = "call"
    /\ breaker_log.before.state = "open"
    /\ breaker_log.before.last_failure_time.t = "num"
    /\ breaker_log.at - breaker_log.before.last_failure_time.n
           > breaker_log.before.recovery_timeout

\* C18: more than recovery_timeout seconds after the last failure of an
\* open breaker the next call executes the function; if the function
\* returns, the call returns its result, the state is closed and
\* failure_count is 0.  After reset() the state is closed, failure_count is
\* 0 and last_failure_time is None.
C18_RecoversAfterTimeout ==
    /\ MetOpenAfterTimeout =>
           /\ breaker_log.executed
           /\ breaker_log.does.raises = "none" =>
                  /\ breaker_log.raised = "none"
                  /\ breaker_log.value = breaker_log.does.value
                  /\ breaker.state = "closed"
                  /\ breaker.failure_count = 0
    /\ breaker_log.op = "reset" =>
           /\ breaker.state = "closed"
           /\ breaker.failure_count = 0
           /\ breaker.last_failure_time = NoneV

C18_Witness ==
    /\ MetOpenAfterTimeout
    /\ breaker_log.before.recovery_timeout > 0
    /\ breaker_log.value = "success"
    /\ breaker.state = "closed"

----------------------------------------------------------------------------
(* Claims about retry (SpecRetryLive)                                      *)

RetryDone == pc \in {"returned", "raised"}

\* the invocations before the k-th raised listed exceptions
ListedBefore(k) ==
    \A j \in 1..(k - 1) :
        /\ retry_run.invoked[j].raises # "none"
        /\ IsListed(retry_run.exceptions, retry_run.invoked[j].raises)

\* the attempts after which on_retry is due when n attempts are allowed
RetriedAttempts(n) ==
    {j \in 1..Len(retry_run.invoked) :
        /\ j < n
        /\ retry_run.invoked[j].raises # "none"
        /\ IsListed(retry_run.exceptions, retry_run.invoked[j].raises)}

\* what the statement says of a call that may make n attempts
RetryContract(n) ==
    /\ Len(retry_run.invoked) <= n
    /\ ListedBefore(Len(retry_run.invoked))
    /\ pc = "returned" =>
           /\ retry_run.invoked[Len(retry_run.invoked)].raises = "none"
           /\ retry_run.result = Str(retry_run.invoked[Len(retry_run.invoked)].value)
    /\ pc = "raised" =>
           /\ Len(retry_run.invoked) > 0
           /\ retry_run.raised = retry_run.invoked[Len(retry_run.invoked)].raises
           /\ retry_run.raised # "none"
           /\ IsListed(retry_run.exceptions, retry_run.raised) => Len(retry_run.invoked) = n
    /\ retry_run.on_retry =>
           /\ Len(retry_run.on_retry_calls) = Cardinality(RetriedAttempts(n))
           /\ \A j \in 1..Len(retry_run.on_retry_calls) : retry_run.on_retry_calls[j] = j
    /\ ~retry_run.on_retry => retry_run.on_retry_calls = << >>

----------------------------------------------------------------------------
(* Claims about SimpleCache (SpecCache)                                    *)

\* what was last set under the key of the last operation
LastWritten == cache_log.written[cache_log.key]

\* its age when the last operation was made
AgeAtLastOp == cache_log.at - LastWritten.timestamp

\* C20: for a SimpleCache with TTL t, get(k) returns the value of the last
\* set(k, v) while the age of that entry does not exceed t; a get(k) made
\* after the age exceeds t returns None and leaves no entry for k; get(k)
\* returns None when nothing was set since the cache was created or
\* cleared; set(k, v) stores v with the current time; clear() leaves no
\* entry.
C20_TtlGoverns ==
    /\ (cache_log.op = "get" /\ LastWritten = Missing) => cache_log.returned = NoneV
    /\ (cache_log.op = "get" /\ LastWritten # Missing /\ AgeAtLastOp <= cache.ttl) =>
           /\ cache_log.returned = LastWritten.value
           /\ cache.entries[cache_log.key] = LastWritten
    /\ (cache_log.op = "get" /\ LastWritten # Missing /\ AgeAtLastOp > cache.ttl) =>
           /\ cache_log.returned = NoneV
           /\ cache.entries[cache_log.key] = Missing
    /\ cache_log.op = "set" =>
           /\ cache.entries[cache_log.key].timestamp = cache_log.at
           /\ cache.entries[cache_log.key] = LastWritten
    /\ cache_log.op = "clear" => \A key \in CacheKeys : cache.entries[key] = Missing

\* a get at the very end of the entry's life, after an earlier value
C20_Witness ==
    /\ cache_log.op = "get"
    /\ LastWritten # Missing
    /\ cache.ttl = 2
    /\ AgeAtLastOp = 2
    /\ LastWritten.timestamp > 0
    /\ cache_log.returned = Str("v2")

\* C21: a SimpleCache constructed with ttl=None never expires its entries:
\* get(k) returns the value last set under k, however much time has passed,
\* until clear() or an overwriting set.
C21_NoneNeverExpires ==
    (cache_log.ttl_arg = NoneV /\ cache_log.op = "get" /\ LastWritten # Missing) =>
        cache_log.returned = LastWritten.value

----------------------------------------------------------------------------
(* Further claims about LineItemExtractor.extract_from_ocr (SpecSegment)   *)

\* the header line found by the scan, 0 when there is none
HeaderLine ==
    IF \E k \in 1..Len(ocr_lines) : is_header_line(Lower(ocr_lines[k]))
    THEN item_section_start(ocr_lines) - 1 ELSE 0

\* C22: every item returned by extract_from_ocr has the six keys sku,
\* description, quantity, price, tax_rate, total, the numbers being 0.0 where
\* the text gave none, and has a non-empty description or a non-empty sku;
\* the items come in the order of the lines at which they began, and none
\* began before or at the header line or at or after the line at which the
\* loop was left.
C22_ReturnedItemsWellFormed ==
    pc = "segmented" =>
        /\ Len(segmenter.returned_from) = Len(line_items)
        /\ \A k \in 1..Len(line_items) :
               /\ DOMAIN line_items[k]
                      = {"sku", "description", "quantity", "price", "tax_rate", "total"}
               /\ \A key \in {"quantity", "price", "tax_rate", "total"} :
                      line_items[k][key] \in Int
               /\ line_items[k].description # "" \/ line_items[k].sku # ""
               /\ segmenter.returned_from[k] > HeaderLine
               /\ segmenter.returned_from[k] < segmenter.i
               /\ k > 1 => segmenter.returned_from[k - 1] <= segmenter.returned_from[k]

\* two items under a header, neither with a tax rate
C22_Witness ==
    /\ pc = "segmented"
    /\ HeaderLine = 1
    /\ Len(line_items) = 2
    /\ segmenter.returned_from = << 2, 3 >>
    /\ line_items[2].tax_rate = 0

\* the line that the step of the loop reads
LineRead == Strip(ocr_lines[segmenter.i])

\* the check for a new item saves the current item and starts an empty one
NewItemStarted ==
    /\ LineRead # ""
    /\ segmenter.current_item # EmptyItem
    /\ AfterNewItemCheck(segmenter.current_item, segmenter.line_items, LineRead).current_item
           = EmptyItem

\* the item that the field blocks of the line wrote to, after the step: it
\* is the last saved item when the description block saved it
ItemOfLine ==
    IF Len(segmenter'.line_items) > Len(segmenter.line_items) /\ ~NewItemStarted
    THEN segmenter'.line_items[Len(segmenter'.line_items)]
    ELSE segmenter'.current_item

\* a key that was assigned keeps its value; price may change its sign
FirstMatchKept(before, after) ==
    /\ before.sku # "" => after.sku = before.sku
    /\ before.quantity # Missing => after.quantity = before.quantity
    /\ before.total # Missing => after.total = before.total
    /\ before.price # Missing =>
           /\ after.price # Missing
           /\ after.price.n \in {before.price.n, 0 - before.price.n}

\* the line has one price token and the item it belongs to has neither
\* price nor total
SinglePriceOnFreshItem ==
    /\ LineRead # ""
    /\ ~is_totals_section(LineRead)
    /\ Len(price_values(LineRead)) = 1
    /\ \/ NewItemStarted
       \/ /\ segmenter.current_item.price = Missing
          /\ segmenter.current_item.total = Missing

\* C23: within one accumulated item the first match wins: once sku,
\* quantity, price or total has been assigned from a line, a value of 0
\* included, no later line of the same item replaces it, except that the
\* sign of price may flip; a line with a single price token gives price and
\* total the same value when both are unset.
C23_FirstMatchWins ==
    [][ pc = "parse_line" =>
            /\ (segmenter.current_item # EmptyItem /\ ~NewItemStarted) =>
                   FirstMatchKept(segmenter.current_item, ItemOfLine)
            /\ SinglePriceOnFreshItem =>
                   /\ ItemOfLine.price # Missing
                   /\ ItemOfLine.total = ItemOfLine.price
      ]_vars

\* the value 0 left out: a key whose value is not 0 keeps it
NonZeroKept(before, after) ==
    /\ before.sku # "" => after.sku = before.sku
    /\ Truthy(before.quantity) => after.quantity = before.quantity
    /\ Truthy(before.total) => after.total = before.total
    /\ Truthy(before.price) =>
           after.price.n \in {before.price.n, 0 - before.price.n}

\* first match wins for the values that are not 0 (holds)
NonZeroFirstMatchWins ==
    [][ pc = "parse_line" =>
            /\ (segmenter.current_item # EmptyItem /\ ~NewItemStarted) =>
                   NonZeroKept(segmenter.current_item, ItemOfLine)
            /\ SinglePriceOnFreshItem =>
                   /\ ItemOfLine.price # Missing
                   /\ ItemOfLine.total = ItemOfLine.price
      ]_vars

----------------------------------------------------------------------------
(* Further claims about the line item improver (SpecImprove)               *)

\* what the statement says of the k-th item
ImprovedAsStated(item, out) ==
    /\ out.quantity = item.quantity
    /\ out.total = item.total
    /\ out.price = IF item.total < 0 /\ item.price > 0 THEN 0 - item.price ELSE item.price
    /\ out.description = _clean_line_item_description(item.description)
    /\ (~TaxOrDiscount(item) /\ item.sku # "") => out.sku = item.sku
    /\ (~TaxOrDiscount(item) /\ item.sku = "") =>
           out.sku = extract_sku_from_description(item.description)

\* C24: extract_and_improve_line_items returns a list of the same length
\* and order as its input, with quantity and total of every item unchanged,
\* price unchanged unless total < 0 and price > 0, when it becomes -|price|;
\* a regular item keeps a non-empty sku and gets one extracted from its
\* description only when it has none; the input list is left as it was.
C24_ImproverFrame ==
    [][ pc = "improve" =>
            /\ line_items' = line_items
            /\ Len(improved') = Len(line_items)
            /\ \A k \in 1..Len(line_items) : ImprovedAsStated(line_items[k], improved'[k])
      ]_vars

\* a regular item that keeps its sku before one that gets its sku from the
\* description
C24_Witness ==
    /\ pc = "improve_again"
    /\ Len(line_items) = 2
    /\ ~TaxOrDiscount(line_items[1])
    /\ line_items[1].sku # ""
    /\ improved[1].sku = line_items[1].sku
    /\ extract_sku_from_description(line_items[1].description) # line_items[1].sku
    /\ line_items[2].sku = ""
    /\ improved[2].sku # ""

----------------------------------------------------------------------------
(* ProcessingService.process_all_invoices (services/processing_service.py). *)
(* The DocumentProcessor and the InvoiceService are collaborators: the     *)
(* processor returns one result per document that the API answered, the    *)
(* service gives a Result for each of them.  The metrics that the service  *)
(* records are the subject of SpecService and are not followed here.       *)

\* ProcessingService.__init__: the processor is kept as it was given, None
\* included; the locals of process_all_invoices are unset
NewProcessingService(processor, dir_exists, documents, combined) ==
    [processor |-> processor,
     dir_exists |-> dir_exists,
     documents |-> documents,
     combined |-> combined,
     results |-> NoneV,
     i |-> 0,
     successful |-> 0,
     failed |-> 0,
     excluded |-> 0,
     all_invoice_data |-> 0,
     calls |-> 0,
     outcome |-> NoneV]

\* what a call of process_all_invoices gives its caller
Summary(total, successful, failed, excluded, with_output_dir) ==
    [kind |-> "summary", total |-> total, successful |-> successful,
     failed |-> failed, excluded |-> excluded, output_dir |-> with_output_dir]

ReturnedNone == [kind |-> "none"]

BatchRaised(exception) == [kind |-> "raised", exception |-> exception]

\* the response of a document that process_single_document kept, and
\* process_invoice on it
DocumentResponse(document) == [Dict EXCEPT !.ocr_text = document.ocr_text]

InvoiceResult(document) ==
    process_invoice(DocumentResponse(document), document.ocr_text, document.does,
                    NewMetrics).result

\* `"does not match expected invoice format" in (error or "")`
IsFormatError(error) == Contains(error, "does not match expected invoice format")

\* the class of a failure Result
FailureCount(error) == IF IsFormatError(error) THEN "excluded" ELSE "failed"

\* one iteration of `for result in results`: the counter that it increments
Counted(document) ==
    IF document.service = "raise" THEN "failed"
    ELSE IF ~InvoiceResult(document).success
    THEN FailureCount(InvoiceResult(document).error)
    ELSE IF document.save = "failure" THEN "failed"
    ELSE "successful"

\* the locals after the iteration for results[k]
AfterDocument(b, k) ==
    [b EXCEPT !.i = k,
              !.successful = @ + (IF Counted(b.results[k]) = "successful" THEN 1 ELSE 0),
              !.failed = @ + (IF Counted(b.results[k]) = "failed" THEN 1 ELSE 0),
              !.excluded = @ + (IF Counted(b.results[k]) = "excluded" THEN 1 ELSE 0),
              !.all_invoice_data =
                  @ + (IF Counted(b.results[k]) = "successful" THEN 1 ELSE 0)]

\* the call up to the loop.  The whole body is inside `if not
\* self.processor:`, so with a processor the function falls off its end;
\* DocumentProcessor(invoices_dir) raises FileNotFoundError for a missing
\* directory before self.processor is assigned
EnterBatch(b) ==
    IF b.processor # "none"
    THEN [b EXCEPT !.calls = @ + 1, !.outcome = ReturnedNone]
    ELSE IF ~b.dir_exists
    THEN [b EXCEPT !.calls = @ + 1, !.outcome = BatchRaised("FileNotFoundError")]
    ELSE IF b.documents = << >>
    THEN [b EXCEPT !.calls = @ + 1, !.processor = "created", !.results = << >>,
                   !.outcome = Summary(0, 0, 0, 0, FALSE)]
    ELSE [b EXCEPT !.calls = @ + 1, !.processor = "created",
                   !.results = b.documents, !.i = 0, !.successful = 0,
                   !.failed = 0, !.excluded = 0, !.all_invoice_data = 0,
                   !.outcome = NoneV]

\* after the loop: the combined file is written when an invoice was saved,
\* save_json re-raises what open or json.dump raise, and the outer except
\* re-raises it
LeaveBatch(b) ==
    IF b.all_invoice_data > 0 /\ b.combined = "raise"
    THEN [b EXCEPT !.outcome = BatchRaised("OSError")]
    ELSE [b EXCEPT !.outcome =
              Summary(Len(b.results), b.successful, b.failed, b.excluded, TRUE)]

----------------------------------------------------------------------------
(* Specification SpecBatch: calls of process_all_invoices on one           *)
(* ProcessingService                                                       *)

MaxDocs == 3
MaxBatchCalls == 2

BatchTexts == {Str(""), Str("Invoice INV-1 Total: $5.00")}

\* the extractor, the generator and the validator of the service either
\* all return or the extractor raises
BatchBehaviours ==
    {does \in Behaviours :
        /\ does.generate_json = "return"
        /\ does.validate = "valid"
        /\ does.exception = "ValueError"}

\* a result of process_all_documents; what is never reached keeps its
\* first value
Documents ==
    {document \in [ocr_text : BatchTexts, does : BatchBehaviours,
                   service : {"result", "raise"}, save : {"success", "failure"}] :
        /\ document.service = "raise" =>
               /\ document.does.is_valid_invoice_format = "valid"
               /\ document.does.extract_all_fields = "return"
               /\ document.ocr_text = Str("")
        /\ document.ocr_text = Str("") => document.does.is_valid_invoice_format = "valid"
        /\ (document.service = "raise" \/ document.does.extract_all_fields = "raise"
            \/ document.does.is_valid_invoice_format # "valid")
               => document.save = "success"}

DocumentLists == UNION {[1..n -> Documents] : n \in 0..MaxDocs}

InitBatch ==
    /\ pc = "batch"
    /\ \E processor \in {"none", "injected"}, dir_exists \in BOOLEAN,
          documents \in DocumentLists, combined \in {"saved", "raise"} :
           /\ processor = "injected" => dir_exists
           /\ batch = NewProcessingService(processor, dir_exists, documents, combined)
    /\ IdleInBatch
    /\ ExtractorsIdle

\* process_all_invoices up to its loop, or to its end when it has no loop
CallProcessAll ==
    /\ pc \in {"batch", "batch_done"}
    /\ batch.calls < MaxBatchCalls
    /\ batch' = EnterBatch(batch)
    /\ pc' = IF EnterBatch(batch).outcome = NoneV THEN "batch_loop" ELSE "batch_done"
    /\ UNCHANGED << extractor_vars, idle_in_batch >>

\* one iteration of the loop
ProcessResult ==
    /\ pc = "batch_loop"
    /\ batch.i < Len(batch.results)
    /\ batch' = AfterDocument(batch, batch.i + 1)
    /\ pc' = "batch_loop"
    /\ UNCHANGED << extractor_vars, idle_in_batch >>

\* the combined file and the summary
ReturnSummary ==
    /\ pc = "batch_loop"
    /\ batch.i = Len(batch.results)
    /\ batch' = LeaveBatch(batch)
    /\ pc' = "batch_done"
    /\ UNCHANGED << extractor_vars, idle_in_batch >>

NextBatch == CallProcessAll \/ ProcessResult \/ ReturnSummary

SpecBatch == InitBatch /\ [][NextBatch]_vars

----------------------------------------------------------------------------
(* Claims about ProcessingService.process_all_invoices (SpecBatch)         *)

\* a call has returned to its caller
BatchReturned == pc = "batch_done" /\ batch.outcome.kind # "raised"

\* the documents among the first k that the format gate rejected
RECURSIVE RejectedByGate(_, _)
RejectedByGate(documents, k) ==
    IF k = 0 THEN 0
    ELSE RejectedByGate(documents, k - 1)
         + (IF /\ documents[k].service = "result"
               /\ Truthy(documents[k].ocr_text)
               /\ documents[k].does.is_valid_invoice_format = "invalid"
            THEN 1 ELSE 0)

\* C25: process_all_invoices returns a summary dictionary for every
\* ProcessingService, whether its DocumentProcessor was injected or created
\* lazily; in the summary every document is counted in exactly one of
\* successful, failed and excluded, so total is their sum, and a document
\* rejected by the format gate is counted as excluded.
C25_SummaryForEveryService ==
    BatchReturned =>
        /\ batch.outcome.kind = "summary"
        /\ batch.outcome.total = Len(batch.documents)
        /\ batch.outcome.total =
               batch.outcome.successful + batch.outcome.failed + batch.outcome.excluded
        /\ batch.outcome.excluded = RejectedByGate(batch.documents, Len(batch.documents))

\* the same for the calls that reach the body: the service had no processor
\* when it was called
SummaryWhenCreated ==
    (BatchReturned /\ batch.outcome.kind = "summary") =>
        /\ batch.outcome.total = Len(batch.documents)
        /\ batch.outcome.total =
               batch.outcome.successful + batch.outcome.failed + batch.outcome.excluded
        /\ batch.outcome.excluded = RejectedByGate(batch.documents, Len(batch.documents))

----------------------------------------------------------------------------
(* Further claims about CircuitBreaker (SpecBreaker)                       *)

\* the step is a call of the breaker
CallStep == breaker_log'.calls = breaker_log.calls + 1

\* the step is a trial call: the function ran on a breaker that the call
\* met open, or half-open
TrialStep == CallStep /\ breaker_log'.executed /\ breaker.state \in {"open", "half_open"}

\* the breaker closes in this step only by a call that returned or by reset
ClosesBySuccessOrReset ==
    (breaker.state # "closed" /\ breaker'.state = "closed") =>
        \/ breaker_log'.op = "reset"
        \/ (CallStep /\ breaker_log'.executed /\ breaker_log'.raised = "none")

\* C26: a failing trial call in the half-open state re-opens the breaker at
\* once and restarts the recovery timeout from that failure; the breaker
\* never returns to closed without a successful call or reset().
C26_FailedTrialReopens ==
    [][ /\ (TrialStep /\ breaker_log'.raised # "none") =>
               /\ breaker'.state = "open"
               /\ breaker'.last_failure_time = Num(now')
        /\ ClosesBySuccessOrReset
      ]_vars

\* the same for the trial calls that fail with an exception of the type
\* expected_exception (holds)
ExpectedFailedTrialReopens ==
    [][ /\ (TrialStep /\ breaker_log'.raised # "none"
                      /\ IsExpected(breaker, breaker_log'.raised)) =>
               /\ breaker'.state = "open"
               /\ breaker'.failure_count > breaker.failure_threshold
               /\ breaker'.last_failure_time = Num(now')
        /\ ClosesBySuccessOrReset
      ]_vars

\* C27: after any sequence of calls and resets, with functions that return
\* or raise any exception type: an open breaker has failure_count >=
\* failure_threshold and last_failure_time set, a closed one has
\* failure_count < failure_threshold, and half_open is never the state left
\* behind when a call returns or raises.
C27_StateInvariant ==
    /\ breaker.state = "open" =>
           /\ breaker.failure_count >= breaker.failure_threshold
           /\ breaker.last_failure_time.t = "num"
    /\ breaker.state = "closed" => breaker.failure_count < breaker.failure_threshold
    /\ breaker.state # "half_open"

\* the same without its last part (holds)
OpenAndClosedCounts ==
    /\ breaker.state = "open" =>
           /\ breaker.failure_count >= breaker.failure_threshold
           /\ breaker.last_failure_time.t = "num"
    /\ breaker.state = "closed" => breaker.failure_count < breaker.failure_threshold
    /\ breaker.state = "half_open" =>
           /\ breaker.failure_count >= breaker.failure_threshold
           /\ breaker.expected_exception # "Exception"

\* the last operation was a call that the open breaker rejected
Rejected == breaker_log.op = "call" /\ ~breaker_log.executed

\* C28: a call rejected because the breaker is open changes nothing: state,
\* failure_count and last_failure_time are after it what they were before,
\* so the recovery timeout still runs from the last failure.
C28_RejectionChangesNothing ==
    Rejected =>
        /\ breaker_log.before.state = "open"
        /\ breaker.state = breaker_log.before.state
        /\ breaker.failure_count = breaker_log.before.failure_count
        /\ breaker.last_failure_time = breaker_log.before.last_failure_time
        /\ \A t \in 0..MaxTime : RecoveryDue(breaker, t) <=> RecoveryDue(breaker_log.before, t)

\* a second rejection in a row, a second after the failure that opened the
\* breaker
C28_Witness ==
    /\ Rejected
    /\ breaker_log.calls >= 3
    /\ breaker.failure_count = 1
    /\ breaker.last_failure_time = Num(0)
    /\ breaker_log.at = 1
    /\ breaker.recovery_timeout = 2

----------------------------------------------------------------------------
(* VeryfiClient.process_document (clients/veryfi_client.py): the cache in  *)
(* front, then the retry wrapper around CircuitBreaker.call around the     *)
(* remote API.  The breaker, the cache and the retry loop are the ones     *)
(* modelled above; a file is known by its cache key.  The remote API       *)
(* returns a response, returns an empty one, or raises.                    *)

\* VeryfiClient.__init__: CircuitBreaker(failure_threshold=5,
\* recovery_timeout=60, expected_exception=Exception)
client_failure_threshold == 5
client_recovery_timeout == 60

ClientBreaker == NewBreaker(client_failure_threshold, client_recovery_timeout, "Exception")

\* self.cache = get_cache() if settings.enable_caching else None
ClientCache(enable_caching) == IF enable_caching THEN SimpleCache(NoneV) ELSE NoneV

\* the lookup that never finds an entry
Lookup_Skipped(c, key, t) == GetOutcome(c, NoneV)

\* `if self.cache and settings.enable_caching: cached_response =
\* self.cache.get(cache_key)`; without a cache there is no cached response
Lookup(c, key, t) == IF c = NoneV THEN GetOutcome(c, NoneV) ELSE get(c, key, t)

\* @retry(exceptions=(Exception,)) at its defaults
ClientRun == NewRun(NoneV, NoneV, {"Exception"}, FALSE)

\* what the retry wrapper sees of one call of _process
SeenByRetry(out) ==
    IF out.raised = "none" THEN FuncReturns(out.value) ELSE FuncRaises(out.raised)

\* `if self.cache and settings.enable_caching and cache_key and response:
\* self.cache.set(cache_key, response)`
Stored(c, key, value, t) ==
    IF c # NoneV /\ Truthy(value) THEN set(c, key, value, t) ELSE c

\* what the client's caller has seen of the call under way or of the last
\* one: its key, the breaker when it was entered, whether the cache
\* answered, the invocations of the remote API and the attempts that the
\* breaker rejected, and the outcome
ClientLog(calls, pauses, key, entered, hit, api_calls, rejected, outcome) ==
    [calls |-> calls, pauses |-> pauses, key |-> key, entered |-> entered,
     hit |-> hit, api_calls |-> api_calls, rejected |-> rejected, outcome |-> outcome]

ClientReturned(value) == [kind |-> "returned", value |-> value]
ClientRaised(exception) == [kind |-> "raised", exception |-> exception]

----------------------------------------------------------------------------
(* Specification SpecClient: calls of process_document on one VeryfiClient *)
(* while the clock advances                                                *)

MaxClientCalls == 3
MaxPauses == 2

ApiBehaviours == {FuncReturns("response"), FuncReturns(""), FuncRaises("ConnectionError")}

\* between two calls: a moment, longer than the recovery timeout, longer
\* than the cache TTL
Pauses == {1, client_recovery_timeout + 1, settings_cache_ttl + 1}

InitClient ==
    /\ pc = "client"
    /\ breaker = ClientBreaker
    /\ \E enable_caching \in BOOLEAN : cache = ClientCache(enable_caching)
    /\ retry_run = NoneV
    /\ now = 0
    /\ client = ClientLog(0, 0, "", breaker, FALSE, 0, 0, NoneV)
    /\ IdleInClient
    /\ ExtractorsIdle

\* process_document up to the first attempt: lines 104-127
ClientCall ==
    /\ pc = "client"
    /\ client.calls < MaxClientCalls
    /\ \E key \in CacheKeys :
           /\ cache' = Lookup(cache, key, now).cache
           /\ IF Lookup(cache, key, now).returned # NoneV
              THEN /\ client' = ClientLog(client.calls + 1, client.pauses, key, breaker, TRUE,
                                          0, 0,
                                          ClientReturned(Lookup(cache, key, now).returned))
                   /\ retry_run' = NoneV
                   /\ pc' = "client"
              ELSE /\ client' = ClientLog(client.calls + 1, client.pauses, key, breaker,
                                          FALSE, 0, 0, NoneV)
                   /\ retry_run' = ClientRun
                   /\ pc' = "client_attempt"
    /\ UNCHANGED << breaker, now, extractor_vars, idle_in_client >>

\* one iteration of the retry loop around circuit_breaker.call; the API
\* answers within the second, time.sleep takes current_delay seconds; a
\* response is cached and returned (lines 129-135)
ClientAttempt ==
    /\ pc = "client_attempt"
    /\ retry_run.attempt <= retry_run.max_attempts
    /\ \E does \in ApiBehaviours :
           /\ Blocked(breaker, now) => does = FuncReturns("response")
           /\ breaker' = call(breaker, does, now, now).breaker
           /\ retry_run' = AfterAttempt(retry_run, SeenByRetry(call(breaker, does, now, now)))
           /\ now' = now + (retry_run'.slept - retry_run.slept)
           /\ client' =
                  [client EXCEPT
                     !.api_calls =
                         @ + (IF call(breaker, does, now, now).executed THEN 1 ELSE 0),
                     !.rejected =
                         @ + (IF call(breaker, does, now, now).executed THEN 0 ELSE 1),
                     !.outcome =
                         IF call(breaker, does, now, now).raised = "none"
                         THEN ClientReturned(Str(does.value)) ELSE NoneV]
           /\ cache' =
                  IF call(breaker, does, now, now).raised = "none"
                  THEN Stored(cache, client.key, Str(does.value), now')
                  ELSE cache
           /\ pc' = IF call(breaker, does, now, now).raised = "none" THEN "client"
                    ELSE "client_attempt"
    /\ UNCHANGED << extractor_vars, idle_in_client >>

\* `raise last_exception` after the loop, re-raised by process_document
\* (lines 137-139)
ClientRaise ==
    /\ pc = "client_attempt"
    /\ retry_run.attempt > retry_run.max_attempts
    /\ retry_run' = AfterLoop(retry_run)
    /\ client' = [client EXCEPT !.outcome = ClientRaised(retry_run.last_exception)]
    /\ pc' = "client"
    /\ UNCHANGED << breaker, cache, now, extractor_vars, idle_in_client >>

\* time passes between two calls
ClientPause ==
    /\ pc = "client"
    /\ client.pauses < MaxPauses
    /\ \E pause \in Pauses : now' = now + pause
    /\ client' = [client EXCEPT !.pauses = @ + 1]
    /\ UNCHANGED << pc, breaker, cache, retry_run, extractor_vars, idle_in_client >>

NextClient == ClientCall \/ ClientAttempt \/ ClientRaise \/ ClientPause

SpecClient == InitClient /\ [][NextClient]_vars

----------------------------------------------------------------------------
(* Claims about VeryfiClient.process_document (SpecClient)                 *)

\* the entry under key is in the cache and not expired at time t
Unexpired(c, key, t) ==
    /\ c # NoneV
    /\ c.entries[key] # Missing
    /\ t - c.entries[key].timestamp <= c.ttl

\* the step enters process_document for the file with this key
CallOf(key) == client'.calls = client.calls + 1 /\ client'.key = key

\* the breaker is open within its recovery timeout
OpenWithinTimeout ==
    /\ breaker.state = "open"
    /\ now - breaker.last_failure_time.n <= breaker.recovery_timeout

\* C29: a call whose file hash has an unexpired cache entry invokes the
\* remote API zero times and leaves the breaker untouched; any other call
\* invokes it at most max_retries times; the remote API is never invoked
\* while the breaker is open within its recovery timeout, the retry attempts
\* made in that window being rejected without reaching the API.
C29_CacheRetryBreaker ==
    [][ /\ \A key \in CacheKeys :
               (CallOf(key) /\ Unexpired(cache, key, now)) =>
                   /\ pc' = "client"
                   /\ client'.outcome = ClientReturned(cache.entries[key].value)
                   /\ client'.api_calls = 0
                   /\ breaker' = breaker
        /\ client'.hit => (client'.api_calls = 0 /\ breaker' = client'.entered)
        /\ client'.api_calls + client'.rejected <= settings_max_retries
        /\ (pc = "client_attempt" /\ OpenWithinTimeout) =>
               /\ client'.api_calls = client.api_calls
               /\ retry_run.attempt <= retry_run.max_attempts =>
                      /\ client'.rejected = client.rejected + 1
                      /\ breaker' = breaker
      ]_vars

\* the third call finds the breaker open: the first two made five failing
\* invocations, and all of its attempts are rejected
C29_Witness ==
    /\ pc = "client"
    /\ client.calls = 3
    /\ client.outcome = ClientRaised("APIError")
    /\ client.api_calls = 0
    /\ client.rejected = settings_max_retries
    /\ breaker.state = "open"
    /\ breaker.failure_count = client_failure_threshold

----------------------------------------------------------------------------
(* Further claims about HybridExtractor.extract_all_fields (SpecHybrid)    *)

\* the six fields of the record
SixFields ==
    {"vendor_name", "vendor_address", "bill_to_name", "invoice_number", "date",
     "line_items"}

\* the call was made with structured extraction off and an OCR text given
OcrOnly == pc = "extracted" /\ ~use_structured_data /\ ocr_text # NoneV

\* C30: with use_structured_data off and an ocr_text that is not None, the
\* record does not depend on the response: for the response of the call and
\* any other response, absent ones included, the two records are equal in
\* all six fields.
C30_ResponseIgnored ==
    OcrOnly =>
        /\ DOMAIN record = SixFields
        /\ \A other \in HybridResponses :
               extract_all_fields(ocr_text, other, FALSE, ocr_fields) = record

\* a response full of fields and line items next to a text with its own:
\* the record has the values of the text, and would have others with
\* structured extraction on
C30_Witness ==
    /\ OcrOnly
    /\ Truthy(ocr_text)
    /\ TruthyResponse(response)
    /\ response.line_items.items # << >>
    /\ StructuredExtractor_extract_invoice_number(response) # NoneV
    /\ record.invoice_number = ocr_fields.invoice_number
    /\ record.line_items # << >>
    /\ extract_all_fields(ocr_text, response, TRUE, ocr_fields) # record

====
